---- MODULE Spec2Model ----
(***************************************************************************)
(* Asana -> YouTrack board synchronisation (BoardSyncAPI).                 *)
(*                                                                         *)
(* The model follows backend/services.go (fetch chain, classification,     *)
(* suppression store), the HTTP handlers that drive them and the console   *)
(* manual-sync loop of the first version of the service (main.go).         *)
(* Strings are TLA+ strings: Go's strings.Contains / ToLower / Split /     *)
(* Trim / TrimSpace / EqualFold are computed character by character.       *)
(***************************************************************************)
EXTENDS Integers, Sequences, FiniteSets, TLC

VARIABLES
    asanaTasks,             \* tasks of the Asana project (what GET .../tasks returns)
    youTrackIssues,         \* issues stored in YouTrack (all projects)
    selectedColumns,        \* column filter handed to performTicketAnalysis
    ignoredTicketsTemp,     \* var ignoredTicketsTemp    (types.go)
    ignoredTicketsForever,  \* var ignoredTicketsForever (types.go)
    ignoredFile,            \* content of ignored_tickets.json
    analysis,               \* *TicketAnalysis returned by the last pass, or NoAnalysis
    err,                    \* error returned by the last pass ("" = nil)
    responses,              \* what each remote endpoint answered during the last pass
    calls,                  \* fetch functions invoked by the last pass, with outcome
    fetched,                \* what getYouTrackIssues returned to the last pass
    requests,               \* create / update actions the last pass derived
    report,                 \* what the last operation answered to its caller
    handlers,               \* POST /ignore requests in flight, one goroutine each
    lastOp,                 \* name of the operation that ran last
    permSuppressed          \* ids with a completed permanent Suppress not yet undone

vars == <<asanaTasks, youTrackIssues, selectedColumns, ignoredTicketsTemp,
          ignoredTicketsForever, ignoredFile, analysis, err, responses, calls,
          fetched, requests, report, handlers, lastOp, permSuppressed>>

---------------------------------------------------------------------------
(* Go's strings package, on ASCII strings                                  *)

UpperLetters == "ABCDEFGHIJKLMNOPQRSTUVWXYZ"

LowerLetters == "abcdefghijklmnopqrstuvwxyz"

CharAt(s, i) == SubSeq(s, i, i)

UpperToLower ==
    [c \in {CharAt(UpperLetters, i) : i \in 1..Len(UpperLetters)} |->
        CharAt(LowerLetters, CHOOSE i \in 1..Len(UpperLetters) : CharAt(UpperLetters, i) = c)]

LowerChar(c) == IF c \in DOMAIN UpperToLower THEN UpperToLower[c] ELSE c

RECURSIVE ToLower(_)
ToLower(s) == IF s = "" THEN "" ELSE LowerChar(CharAt(s, 1)) \o ToLower(Tail(s))

Contains(s, sub) ==
    \E i \in 1..(Len(s) - Len(sub) + 1) : SubSeq(s, i, i + Len(sub) - 1) = sub

EqualFold(a, b) == ToLower(a) = ToLower(b)

RECURSIVE IndexFrom(_, _, _)
IndexFrom(s, sep, i) ==
    IF i + Len(sep) - 1 > Len(s) THEN 0
    ELSE IF SubSeq(s, i, i + Len(sep) - 1) = sep THEN i
    ELSE IndexFrom(s, sep, i + 1)

\* index of the first occurrence of sep in s, 0 when absent
Index(s, sep) == IndexFrom(s, sep, 1)

RECURSIVE Split(_, _)
Split(s, sep) ==
    LET i == Index(s, sep) IN
    IF i = 0 THEN <<s>>
    ELSE <<SubSeq(s, 1, i - 1)>> \o Split(SubSeq(s, i + Len(sep), Len(s)), sep)

RECURSIVE TrimLeft(_, _)
TrimLeft(s, cutset) ==
    IF s # "" /\ Contains(cutset, CharAt(s, 1)) THEN TrimLeft(Tail(s), cutset) ELSE s

RECURSIVE TrimRight(_, _)
TrimRight(s, cutset) ==
    IF s # "" /\ Contains(cutset, CharAt(s, Len(s)))
    THEN TrimRight(SubSeq(s, 1, Len(s) - 1), cutset)
    ELSE s

Trim(s, cutset) == TrimRight(TrimLeft(s, cutset), cutset)

RECURSIVE Join(_, _)
Join(elems, sep) ==
    IF elems = <<>> THEN ""
    ELSE IF Len(elems) = 1 THEN elems[1]
    ELSE elems[1] \o sep \o Join(Tail(elems), sep)

WhiteSpace == " \n\t\r"

TrimSpace(s) == Trim(s, WhiteSpace)

---------------------------------------------------------------------------
(* Records.                                                                *)
(*   task  : [GID, Memberships]   Memberships = section names, in order    *)
(*   issue : [ID, Description, CustomFields, Project]                      *)
(*   field : [Name, Value]  Value = [type, name, localizedName, str]       *)
(*           type "map" | "string" | "nil" | "other" (Go interface{})      *)

YouTrackProjectID == "PRJ"

syncableColumns == <<"backlog", "in progress", "dev", "stage", "blocked">>

displayOnlyColumns == <<"ready for stage", "findings">>

allColumns == syncableColumns \o displayOnlyColumns

Range(seq) == {seq[i] : i \in 1..Len(seq)}

RECURSIVE SelectSeq2(_, _)
\* the subsequence of seq whose elements are in the set keep (order kept)
SelectSeq2(seq, keep) ==
    IF seq = <<>> THEN <<>>
    ELSE (IF Head(seq) \in keep THEN <<Head(seq)>> ELSE <<>>) \o SelectSeq2(Tail(seq), keep)

getSectionName(task) ==
    IF Len(task.Memberships) = 0 THEN "No Section"
    ELSE ToLower(task.Memberships[1])

\* the switch with its display-only cases moved to the front
mapAsanaStateToYouTrack_DisplayOnlyFirst(task) ==
    IF Len(task.Memberships) = 0 THEN "Backlog"
    ELSE LET sectionName == ToLower(task.Memberships[1]) IN
         CASE Contains(sectionName, "findings") -> "FINDINGS_NO_SYNC"
           [] Contains(sectionName, "ready for stage") -> "READY_FOR_STAGE_NO_SYNC"
           [] Contains(sectionName, "backlog") -> "Backlog"
           [] Contains(sectionName, "in progress") -> "In Progress"
           [] Contains(sectionName, "dev") /\ ~Contains(sectionName, "ready") -> "DEV"
           [] Contains(sectionName, "stage") /\ ~Contains(sectionName, "ready") -> "STAGE"
           [] Contains(sectionName, "blocked") -> "Blocked"
           [] OTHER -> "Backlog"

mapAsanaStateToYouTrack(task) ==
    IF Len(task.Memberships) = 0 THEN "Backlog"
    ELSE LET sectionName == ToLower(task.Memberships[1]) IN
         CASE Contains(sectionName, "backlog") -> "Backlog"
           [] Contains(sectionName, "in progress") -> "In Progress"
           [] Contains(sectionName, "dev") /\ ~Contains(sectionName, "ready") -> "DEV"
           [] Contains(sectionName, "stage") /\ ~Contains(sectionName, "ready") -> "STAGE"
           [] Contains(sectionName, "blocked") -> "Blocked"
           [] Contains(sectionName, "findings") -> "FINDINGS_NO_SYNC"
           [] Contains(sectionName, "ready for stage") -> "READY_FOR_STAGE_NO_SYNC"
           [] OTHER -> "Backlog"

\* what one "State" custom field yields; "" = the loop goes on to the next field
StateOfValue(value) ==
    CASE value.type = "map" ->
            IF value.localizedName # "" THEN value.localizedName
            ELSE IF value.name # "" THEN value.name
            ELSE ""
      [] value.type = "string" -> value.str
      [] value.type = "nil" -> "No State"
      [] OTHER -> ""

RECURSIVE StatusFromFields(_)
StatusFromFields(fields) ==
    IF fields = <<>> THEN "Unknown"
    ELSE IF Head(fields).Name = "State" /\ StateOfValue(Head(fields).Value) # ""
         THEN StateOfValue(Head(fields).Value)
         ELSE StatusFromFields(Tail(fields))

getYouTrackStatus(issue) == StatusFromFields(issue.CustomFields)

AsanaMarker == "Asana ID:"

RECURSIVE IDFromLines(_)
IDFromLines(lines) ==
    IF lines = <<>> THEN ""
    ELSE IF Contains(Head(lines), AsanaMarker)
         THEN TrimSpace(Trim(Split(Head(lines), AsanaMarker)[2], "]"))
         ELSE IDFromLines(Tail(lines))

extractAsanaID(issue) ==
    IF Contains(issue.Description, AsanaMarker)
    THEN IDFromLines(Split(issue.Description, "\n"))
    ELSE ""

\* the column list without its last entry, "blocked"
isSyncableColumn_NoBlocked(sectionName) ==
    \E i \in 1..(Len(syncableColumns) - 1) :
        Contains(ToLower(sectionName), ToLower(syncableColumns[i]))

isSyncableColumn(sectionName) ==
    \E i \in 1..Len(syncableColumns) :
        Contains(ToLower(sectionName), ToLower(syncableColumns[i]))

activeStatuses == <<"Backlog", "In Progress", "DEV", "STAGE", "Blocked">>

\* exact comparison in place of strings.EqualFold
isActiveYouTrackStatus_Exact(status) ==
    \E i \in 1..Len(activeStatuses) : status = activeStatuses[i]

isActiveYouTrackStatus(status) ==
    \E i \in 1..Len(activeStatuses) : EqualFold(status, activeStatuses[i])

RECURSIVE OncePerColumn(_, _, _)
OncePerColumn(task, cols, i) ==
    IF i > Len(cols) THEN <<>>
    ELSE (IF Contains(ToLower(task.Memberships[1]), ToLower(cols[i])) THEN <<task>> ELSE <<>>)
         \o OncePerColumn(task, cols, i + 1)

RECURSIVE filterAsanaTasksByColumns_NoBreak(_, _)
\* the inner loop without its break: a task is appended once per matching column
filterAsanaTasksByColumns_NoBreak(tasks, cols) ==
    IF tasks = <<>> THEN <<>>
    ELSE (IF Len(Head(tasks).Memberships) > 0 THEN OncePerColumn(Head(tasks), cols, 1) ELSE <<>>)
         \o filterAsanaTasksByColumns_NoBreak(Tail(tasks), cols)

InColumns(task, cols) ==
    /\ Len(task.Memberships) > 0
    /\ LET sectionName == ToLower(task.Memberships[1]) IN
       \E i \in 1..Len(cols) : Contains(sectionName, ToLower(cols[i]))

filterAsanaTasksByColumns(tasks, cols) ==
    SelectSeq2(tasks, {t \in Range(tasks) : InColumns(t, cols)})

\* only the temporary set is consulted
isIgnored_TempOnly(ticketID, temp, forever) == ticketID \in temp

isIgnored(ticketID, temp, forever) == ticketID \in temp \/ ticketID \in forever

\* the keys of a Go map[string]bool; the order of the slice is not defined
getMapKeys(m) == m

---------------------------------------------------------------------------
(* HTTP.  A response is one of                                             *)
(*   "neterr"  client.Do fails (also a timeout)                            *)
(*   "status"  an answer with a status outside 2xx                         *)
(*   "status2xx" an answer with a 2xx status other than 200 (201, 203,     *)
(*             206), decodable body                                        *)
(*   "badjson" status 200, body not decodable                              *)
(*   "ok"      status 200, decodable body                                  *)
(* env maps each endpoint to the response it gives during one pass.        *)

ResponseKinds == {"neterr", "status", "status2xx", "badjson", "ok"}

\* the answers that fail the test resp.StatusCode == http.StatusOK
StatusNotOK == {"status", "status2xx"}

Endpoints == {"asana", "query1", "query2", "query3", "simple", "projects"}

ProjectIssues(issues) ==
    SelectSeq2(issues, {i \in Range(issues) : i.Project = YouTrackProjectID})

\* a fetch function returns [issues, err]
Fetched(issues) == [issues |-> issues, err |-> ""]

FetchFailed(msg) == [issues |-> <<>>, err |-> msg]

getAsanaTasks(env, tasks) ==
    IF env["asana"] = "ok" THEN [tasks |-> tasks, err |-> ""]
    ELSE [tasks |-> <<>>, err |-> "Asana API error"]

queryEndpoints == <<"query1", "query2", "query3">>

RECURSIVE QueryLoop(_, _, _)
QueryLoop(env, issues, i) ==
    IF i > Len(queryEndpoints) THEN FetchFailed("query approach failed")
    ELSE IF env[queryEndpoints[i]] = "ok" THEN Fetched(ProjectIssues(issues))
    ELSE QueryLoop(env, issues, i + 1)

getYouTrackIssuesWithQuery(env, issues) == QueryLoop(env, issues, 1)

getYouTrackIssuesSimpleCloud(env, issues) ==
    CASE env["simple"] = "neterr" -> FetchFailed("network error")
      [] env["simple"] \in StatusNotOK -> FetchFailed("API error")
      [] env["simple"] = "badjson" -> FetchFailed("JSON parsing error")
      [] OTHER -> Fetched(SelectSeq2(issues,
                     {i \in Range(issues) : i.Project = YouTrackProjectID}))

getYouTrackIssuesViaProjects(env, issues) ==
    CASE env["projects"] = "neterr" -> FetchFailed("network error")
      [] env["projects"] \in StatusNotOK -> FetchFailed("project endpoint failed with status")
      [] env["projects"] = "badjson" -> FetchFailed("JSON parsing error")
      [] OTHER -> Fetched(ProjectIssues(issues))

approaches ==
    <<"getYouTrackIssuesWithQuery", "getYouTrackIssuesSimpleCloud",
      "getYouTrackIssuesViaProjects">>

Approach(name, env, issues) ==
    CASE name = "getYouTrackIssuesWithQuery" -> getYouTrackIssuesWithQuery(env, issues)
      [] name = "getYouTrackIssuesSimpleCloud" -> getYouTrackIssuesSimpleCloud(env, issues)
      [] OTHER -> getYouTrackIssuesViaProjects(env, issues)

\* one entry of the call log: the function invoked and the error it returned
Call(fn, e) == [fn |-> fn, err |-> e]

RECURSIVE ApproachLoop(_, _, _, _)
\* the for loop of getYouTrackIssues from approach i on; log = calls so far
ApproachLoop(env, issues, i, log) ==
    IF i > Len(approaches)
    THEN [issues |-> <<>>,
          err |-> "all approaches failed to connect to YouTrack Cloud",
          calls |-> log]
    ELSE LET r == Approach(approaches[i], env, issues) IN
         IF r.err = "" /\ Len(r.issues) >= 0
         THEN [issues |-> r.issues, err |-> "", calls |-> Append(log, Call(approaches[i], ""))]
         ELSE ApproachLoop(env, issues, i + 1, Append(log, Call(approaches[i], r.err)))

\* the loop without its return: every approach is invoked, the first success is kept
getYouTrackIssues_TriesAll(env, issues) ==
    LET results == [i \in 1..Len(approaches) |-> Approach(approaches[i], env, issues)]
        good == {i \in 1..Len(approaches) : results[i].err = ""}
        log == [i \in 1..Len(approaches) |-> Call(approaches[i], results[i].err)]
    IN IF good = {}
       THEN [issues |-> <<>>,
             err |-> "all approaches failed to connect to YouTrack Cloud", calls |-> log]
       ELSE [issues |-> results[CHOOSE i \in good : \A j \in good : i <= j].issues,
             err |-> "", calls |-> log]

\* the loop with the test len(issues) > 0: an approach that returns no issue is passed over
getYouTrackIssues_EmptyFallsThrough(env, issues) ==
    LET results == [i \in 1..Len(approaches) |-> Approach(approaches[i], env, issues)]
        good == {i \in 1..Len(approaches) : results[i].err = "" /\ results[i].issues # <<>>}
        last == IF good = {} THEN Len(approaches)
                ELSE CHOOSE i \in good : \A j \in good : i <= j
        log == [i \in 1..last |-> Call(approaches[i], results[i].err)]
    IN IF good = {}
       THEN [issues |-> <<>>,
             err |-> "all approaches failed to connect to YouTrack Cloud", calls |-> log]
       ELSE [issues |-> results[last].issues, err |-> "", calls |-> log]

getYouTrackIssues(env, issues) == ApproachLoop(env, issues, 1, <<>>)

---------------------------------------------------------------------------
(* Classification: performTicketAnalysis                                   *)

NoAnalysis == [none |-> TRUE]

\* the operation answered nothing (yet)
NoReport == [status |-> "none"]

RECURSIVE youTrackMapOf_FirstWins(_, _)
\* an entry already present is kept: the first issue seen with a key wins
youTrackMapOf_FirstWins(issues, m) ==
    IF issues = <<>> THEN m
    ELSE LET asanaID == extractAsanaID(Head(issues)) IN
         youTrackMapOf_FirstWins(Tail(issues),
             IF asanaID # "" /\ asanaID \notin DOMAIN m
             THEN [k \in DOMAIN m \cup {asanaID} |->
                      IF k = asanaID THEN Head(issues) ELSE m[k]]
             ELSE m)

RECURSIVE youTrackMapOf(_, _)
\* the loop "youTrackMap[asanaID] = issue": a later issue replaces an earlier one
youTrackMapOf(issues, m) ==
    IF issues = <<>> THEN m
    ELSE LET asanaID == extractAsanaID(Head(issues)) IN
         youTrackMapOf(Tail(issues),
             IF asanaID # ""
             THEN [k \in DOMAIN m \cup {asanaID} |->
                      IF k = asanaID THEN Head(issues) ELSE m[k]]
             ELSE m)

EmptyMap == [k \in {} |-> 0]

asanaMapOf(tasks) == {tasks[i].GID : i \in 1..Len(tasks)}

MatchedTicket(task, issue, status) ==
    [AsanaTask |-> task, YouTrackIssue |-> issue, Status |-> status]

MismatchedTicket(task, issue, asanaStatus, youtrackStatus) ==
    [AsanaTask |-> task, YouTrackIssue |-> issue,
     AsanaStatus |-> asanaStatus, YouTrackStatus |-> youtrackStatus]

FindingsAlert(task, issue, youtrackStatus) ==
    [AsanaTask |-> task, YouTrackIssue |-> issue, YouTrackStatus |-> youtrackStatus]

EmptyAnalysis(cols, forever) ==
    [SelectedColumn   |-> Join(cols, ", "),
     Matched          |-> <<>>,
     Mismatched       |-> <<>>,
     MissingYouTrack  |-> <<>>,
     FindingsTickets  |-> <<>>,
     FindingsAlerts   |-> <<>>,
     ReadyForStage    |-> <<>>,
     BlockedTickets   |-> <<>>,
     OrphanedYouTrack |-> <<>>,
     Ignored          |-> getMapKeys(forever)]

\* the body of the loop over asanaTasks, for one task
ProcessTask(an, task, youTrackMap, temp, forever) ==
    LET sectionName == getSectionName(task)
        exists == task.GID \in DOMAIN youTrackMap
    IN
    IF isIgnored(task.GID, temp, forever) THEN an
    ELSE IF Contains(sectionName, "findings")
    THEN LET withTicket == [an EXCEPT !.FindingsTickets = Append(@, task)] IN
         IF exists /\ isActiveYouTrackStatus(getYouTrackStatus(youTrackMap[task.GID]))
         THEN [withTicket EXCEPT !.FindingsAlerts =
                  Append(@, FindingsAlert(task, youTrackMap[task.GID],
                                          getYouTrackStatus(youTrackMap[task.GID])))]
         ELSE withTicket
    ELSE IF Contains(sectionName, "ready for stage")
    THEN [an EXCEPT !.ReadyForStage = Append(@, task)]
    ELSE IF exists
    THEN LET existingIssue == youTrackMap[task.GID]
             asanaStatus == mapAsanaStateToYouTrack(task)
             youtrackStatus == getYouTrackStatus(existingIssue)
         IN
         IF Contains(sectionName, "blocked")
         THEN [an EXCEPT !.BlockedTickets =
                  Append(@, MatchedTicket(task, existingIssue, asanaStatus))]
         ELSE IF asanaStatus = youtrackStatus
         THEN [an EXCEPT !.Matched =
                  Append(@, MatchedTicket(task, existingIssue, asanaStatus))]
         ELSE [an EXCEPT !.Mismatched =
                  Append(@, MismatchedTicket(task, existingIssue, asanaStatus, youtrackStatus))]
    ELSE IF isSyncableColumn(sectionName)
    THEN [an EXCEPT !.MissingYouTrack = Append(@, task)]
    ELSE an

RECURSIVE ProcessTasks(_, _, _, _, _)
ProcessTasks(an, tasks, youTrackMap, temp, forever) ==
    IF tasks = <<>> THEN an
    ELSE ProcessTasks(ProcessTask(an, Head(tasks), youTrackMap, temp, forever),
                      Tail(tasks), youTrackMap, temp, forever)

\* without the test asanaID != ""
OrphanedOf_KeepsEmptyKeys(issues, asanaMap) ==
    SelectSeq2(issues, {i \in Range(issues) : extractAsanaID(i) \notin asanaMap})

\* the loop "Check for orphaned YouTrack tickets"
OrphanedOf(issues, asanaMap) ==
    SelectSeq2(issues, {i \in Range(issues) :
                          extractAsanaID(i) # "" /\ extractAsanaID(i) \notin asanaMap})

NoFetch == [none |-> TRUE]

\* returns [analysis, err] and, for the record of the pass, the fetch functions it
\* invoked and what getYouTrackIssues returned to it
performTicketAnalysis(cols, env, tasks, issues, temp, forever) ==
    LET a == getAsanaTasks(env, tasks) IN
    IF a.err # ""
    THEN [analysis |-> NoAnalysis, err |-> "failed to get Asana tasks",
          calls |-> <<Call("getAsanaTasks", a.err)>>, fetched |-> NoFetch]
    ELSE
    LET filtered == filterAsanaTasksByColumns(a.tasks, cols)
        y == getYouTrackIssues(env, issues)
        log == <<Call("getAsanaTasks", "")>> \o y.calls
    IN
    IF y.err # ""
    THEN [analysis |-> NoAnalysis, err |-> "failed to get YouTrack issues", calls |-> log,
          fetched |-> [issues |-> y.issues, err |-> y.err]]
    ELSE
    LET youTrackMap == youTrackMapOf(y.issues, EmptyMap)
        an == ProcessTasks(EmptyAnalysis(cols, forever), filtered, youTrackMap, temp, forever)
    IN [analysis |-> [an EXCEPT !.OrphanedYouTrack =
                         OrphanedOf(y.issues, asanaMapOf(filtered))],
        err |-> "", calls |-> log, fetched |-> [issues |-> y.issues, err |-> y.err]]

---------------------------------------------------------------------------
(* Bounded inputs                                                          *)

MaxTasks == 1

MaxIssues == 2

\* Asana gids are unique within a project: the i-th task of a snapshot has gid S<i>
Digits == "123456789"

GidOf(i) == "S" \o CharAt(Digits, i)

IssueIdOf(i) == "PRJ-" \o CharAt(Digits, i)

\* section (column) names as Asana returns them; <<>> = a task with no membership
SectionChoices ==
    {<<"Backlog">>, <<"Stage">>, <<"Blocked">>, <<"Findings">>,
     <<"Ready for Stage">>, <<"Dev Findings">>, <<>>}

TaskLists ==
    UNION {{[i \in 1..n |-> [GID |-> GidOf(i), Notes |-> "notes", Memberships |-> f[i]]] :
               f \in [1..n -> SectionChoices]} : n \in 0..MaxTasks}

MapValue(name, localizedName) ==
    [type |-> "map", name |-> name, localizedName |-> localizedName, str |-> ""]

StringValue(str) == [type |-> "string", name |-> "", localizedName |-> "", str |-> str]

\* the marker line as createYouTrackIssue writes it, and a bare marker line
SyncedDescription == "notes\n\n[Synced from Asana ID: S1]"

BareDescription == "Asana ID: S2"

StateBacklog == <<[Name |-> "State", Value |-> MapValue("Backlog", "")]>>

StateStageString ==
    <<[Name |-> "Priority", Value |-> MapValue("Normal", "")],
      [Name |-> "State", Value |-> StringValue("Stage")]>>

\* the (description, custom fields) shapes of the issues of a snapshot
IssueShapes ==
    {<<SyncedDescription, StateBacklog>>,
     <<SyncedDescription, StateStageString>>,
     <<SyncedDescription, <<>>>>,
     <<BareDescription, StateBacklog>>,
     <<"", <<>>>>}

IssueLists ==
    UNION {{[i \in 1..n |-> [ID |-> IssueIdOf(i), Description |-> f[i][1],
                             CustomFields |-> f[i][2], Project |-> YouTrackProjectID]] :
               f \in [1..n -> IssueShapes]} :
           n \in 0..MaxIssues}

\* the filters the callers pass: GET /analyze and the other handlers
ColumnFilters == {allColumns, syncableColumns}

SuppressibleIds == {"S1"}

AllOk == [e \in Endpoints |-> "ok"]

\* no pass has run: no endpoint was asked
NoResponses == [e \in Endpoints |-> "none"]

MaxInFlight == 2

Idle == [pc |-> "idle"]

NoHandlers == [w \in 1..MaxInFlight |-> Idle]

---------------------------------------------------------------------------
(* Specification SpecClassify: one classification pass over every bounded  *)
(* pair of snapshots, filter and suppression sets, both fetches succeeding *)

InitClassify ==
    /\ asanaTasks \in TaskLists
    /\ youTrackIssues \in IssueLists
    /\ selectedColumns \in ColumnFilters
    /\ ignoredTicketsTemp \in SUBSET SuppressibleIds
    /\ ignoredTicketsForever \in SUBSET SuppressibleIds
    /\ ignoredFile = ignoredTicketsForever
    /\ analysis = NoAnalysis
    /\ err = ""
    /\ responses = NoResponses
    /\ calls = <<>>
    /\ fetched = NoFetch
    /\ requests = <<>>
    /\ report = NoReport
    /\ handlers = NoHandlers
    /\ lastOp = "init"
    /\ permSuppressed = ignoredTicketsForever

\* a classification that remembers the tasks it has reported: a run with a side effect
Classify_Remembers ==
    /\ lastOp = "init"
    /\ \E r \in {performTicketAnalysis(selectedColumns, AllOk, asanaTasks, youTrackIssues,
                                       ignoredTicketsTemp, ignoredTicketsForever)} :
          /\ analysis' = r.analysis
          /\ err' = r.err
          /\ calls' = r.calls
          /\ fetched' = r.fetched
          /\ ignoredTicketsTemp' =
                 ignoredTicketsTemp \cup
                    {r.analysis.MissingYouTrack[i].GID : i \in 1..Len(r.analysis.MissingYouTrack)}
    /\ responses' = AllOk
    /\ lastOp' = "analyze"
    /\ UNCHANGED <<asanaTasks, youTrackIssues, selectedColumns,
                   ignoredTicketsForever, ignoredFile, requests, report, handlers,
                   permSuppressed>>

Classify ==
    /\ lastOp = "init"
    /\ \E r \in {performTicketAnalysis(selectedColumns, AllOk, asanaTasks, youTrackIssues,
                                       ignoredTicketsTemp, ignoredTicketsForever)} :
          /\ analysis' = r.analysis
          /\ err' = r.err
          /\ calls' = r.calls
          /\ fetched' = r.fetched
    /\ responses' = AllOk
    /\ lastOp' = "analyze"
    /\ UNCHANGED <<asanaTasks, youTrackIssues, selectedColumns, ignoredTicketsTemp,
                   ignoredTicketsForever, ignoredFile, requests, report, handlers,
                   permSuppressed>>

NextClassify == Classify

SpecClassify == InitClassify /\ [][NextClassify]_vars

---------------------------------------------------------------------------
(* The record of an operation: what the last operation returned and did    *)

\* an operation that runs no pass leaves an empty record
NoPass(op) ==
    /\ analysis' = NoAnalysis
    /\ err' = ""
    /\ responses' = NoResponses
    /\ calls' = <<>>
    /\ fetched' = NoFetch
    /\ requests' = <<>>
    /\ report' = NoReport
    /\ lastOp' = op

---------------------------------------------------------------------------
(* GET /analyze                                                            *)

FailureKinds == ResponseKinds \ {"ok"}

\* every endpoint answers or fails
Down(down, kind) == [e \in Endpoints |-> IF e \in down THEN kind ELSE "ok"]

\* any set of endpoints rejects the request, or nothing is reachable, or nothing
\* answers with JSON or with status 200; the same with Asana answering
Environments ==
    {Down(down, "status") : down \in SUBSET Endpoints}
    \cup {Down(down, kind) : down \in {Endpoints, Endpoints \ {"asana"}}, kind \in FailureKinds}

\* analyzeTicketsHandler for a GET, the endpoints answering as one of envs
Analyze(envs) ==
    /\ \E env \in envs :
          \E r \in {performTicketAnalysis(allColumns, env, asanaTasks, youTrackIssues,
                                          ignoredTicketsTemp, ignoredTicketsForever)} :
             /\ responses' = env
             /\ analysis' = r.analysis
             /\ err' = r.err
             /\ calls' = r.calls
             /\ fetched' = r.fetched
    /\ selectedColumns' = allColumns
    /\ requests' = <<>>
    /\ report' = NoReport
    /\ lastOp' = "analyze"
    /\ UNCHANGED <<asanaTasks, youTrackIssues, ignoredTicketsTemp, ignoredTicketsForever,
                   ignoredFile, handlers, permSuppressed>>

analyzeTicketsHandler == Analyze(Environments)

---------------------------------------------------------------------------
(* The console loop of the first version of the service (main.go)          *)

MaxStored == 2

getAsanaTasksV1(env, tasks) ==
    IF env["asana"] = "ok" THEN [tasks |-> tasks, err |-> ""]
    ELSE [tasks |-> <<>>, err |-> "Asana API error"]

\* one request, the query "project: <id>" (the second query format of the service)
getYouTrackIssuesV1(env, issues) ==
    IF env["query2"] = "ok" THEN Fetched(ProjectIssues(issues))
    ELSE FetchFailed("YouTrack API error")

RECURSIVE IDFromLinesV1(_)
IDFromLinesV1(lines) ==
    IF lines = <<>> THEN ""
    ELSE IF Contains(Head(lines), AsanaMarker)
         THEN TrimSpace(Split(Head(lines), AsanaMarker)[2])
         ELSE IDFromLinesV1(Tail(lines))

extractAsanaIDV1(issue) ==
    IF Contains(issue.Description, AsanaMarker)
    THEN IDFromLinesV1(Split(issue.Description, "\n"))
    ELSE ""

mapAsanaStateToYouTrackV1(task) ==
    IF Len(task.Memberships) = 0 THEN "To Do"
    ELSE LET sectionName == ToLower(task.Memberships[1]) IN
         CASE Contains(sectionName, "backlog") -> "To Do"
           [] Contains(sectionName, "progress") \/ Contains(sectionName, "doing") ->
                  "In Progress"
           [] Contains(sectionName, "dev") \/ Contains(sectionName, "development") ->
                  "In Progress"
           [] Contains(sectionName, "done") \/ Contains(sectionName, "complete") -> "Done"
           [] OTHER -> "To Do"

DescriptionOf(task) == task.Notes \o "\n\n[Synced from Asana ID: " \o task.GID \o "]"

StateField(state) == [Name |-> "State", Value |-> MapValue(state, "")]

\* the issue YouTrack stores for an accepted createYouTrackIssue, as its n-th issue
createYouTrackIssueV1(task, n) ==
    [ID |-> IssueIdOf(n), Description |-> DescriptionOf(task),
     CustomFields |-> <<StateField(mapAsanaStateToYouTrackV1(task))>>,
     Project |-> YouTrackProjectID]

WithState(fields, state) ==
    IF \E i \in 1..Len(fields) : fields[i].Name = "State"
    THEN [i \in 1..Len(fields) |->
             IF fields[i].Name = "State" THEN StateField(state) ELSE fields[i]]
    ELSE Append(fields, StateField(state))

\* the issue YouTrack stores after an accepted updateYouTrackIssue
updateYouTrackIssueV1(issue, task) ==
    [issue EXCEPT !.Description = DescriptionOf(task),
                  !.CustomFields = WithState(@, mapAsanaStateToYouTrackV1(task))]

RECURSIVE youTrackMapV1(_, _)
youTrackMapV1(issues, m) ==
    IF issues = <<>> THEN m
    ELSE LET asanaID == extractAsanaIDV1(Head(issues)) IN
         youTrackMapV1(Tail(issues),
             IF asanaID # ""
             THEN [k \in DOMAIN m \cup {asanaID} |->
                      IF k = asanaID THEN Head(issues) ELSE m[k]]
             ELSE m)

\* a create or update action of a pass; outcome "declined" = derived, not approved
Request(kind, task, issueID, outcome) ==
    [kind |-> kind, task |-> task, issueID |-> issueID, outcome |-> outcome]

Outcome(approved, task, failing) ==
    IF ~approved THEN "declined" ELSE IF task.GID \in failing THEN "failed" ELSE "ok"

\* the create and update actions showTasksForSync derives and, once approved, sends;
\* failing = the ids whose write YouTrack rejects
showTasksForSync(tasks, issues, approveCreate, approveUpdate, failing) ==
    LET youTrackMap == youTrackMapV1(issues, EmptyMap)
        newTasks == SelectSeq2(tasks, {t \in Range(tasks) : t.GID \notin DOMAIN youTrackMap})
        updatableTasks ==
            SelectSeq2(tasks, {t \in Range(tasks) : t.GID \in DOMAIN youTrackMap})
    IN [i \in 1..Len(newTasks) |->
           Request("create", newTasks[i], "", Outcome(approveCreate, newTasks[i], failing))]
       \o
       [i \in 1..Len(updatableTasks) |->
           Request("update", updatableTasks[i], youTrackMap[updatableTasks[i].GID].ID,
                   Outcome(approveUpdate, updatableTasks[i], failing))]

RECURSIVE StoreAfter(_, _)
\* the issues YouTrack holds once it has served the accepted requests, in order
StoreAfter(store, reqs) ==
    IF reqs = <<>> THEN store
    ELSE LET r == Head(reqs) IN
         StoreAfter(
             CASE r.outcome # "ok" -> store
               [] r.kind = "create" ->
                      Append(store, createYouTrackIssueV1(r.task, Len(store) + 1))
               [] OTHER ->
                      [i \in 1..Len(store) |->
                          IF store[i].ID = r.issueID
                          THEN updateYouTrackIssueV1(store[i], r.task) ELSE store[i]],
             Tail(reqs))

\* the console asks two endpoints only
ConsoleEndpoints == {"asana", "query2"}

ConsoleEnvironments == {env \in Environments : \A e \in Endpoints \ ConsoleEndpoints : env[e] = "ok"}

\* one turn of the loop of runManualSync: the operator presses Enter
runManualSync ==
    \E env \in ConsoleEnvironments, approveCreate \in BOOLEAN, approveUpdate \in BOOLEAN,
       failing \in SUBSET asanaMapOf(asanaTasks) :
       LET a == getAsanaTasksV1(env, asanaTasks)
           y == getYouTrackIssuesV1(env, youTrackIssues)
           snapshot == IF y.err # "" THEN <<>> ELSE y.issues
           reqs == showTasksForSync(a.tasks, snapshot, approveCreate, approveUpdate, failing)
       IN
       /\ responses' = env
       /\ analysis' = NoAnalysis
       /\ lastOp' = "manualSync"
       /\ report' = NoReport
       /\ IF a.err # ""
          THEN /\ err' = "Error getting Asana tasks"
               /\ calls' = <<Call("getAsanaTasks", a.err)>>
               /\ fetched' = NoFetch
               /\ requests' = <<>>
               /\ UNCHANGED youTrackIssues
          ELSE IF Len(a.tasks) = 0
          THEN /\ err' = ""
               /\ calls' = <<Call("getAsanaTasks", "")>>
               /\ fetched' = NoFetch
               /\ requests' = <<>>
               /\ UNCHANGED youTrackIssues
          ELSE /\ err' = IF y.err # "" THEN "Error getting YouTrack issues" ELSE ""
               /\ calls' = <<Call("getAsanaTasks", ""), Call("getYouTrackIssues", y.err)>>
               /\ fetched' = [issues |-> y.issues, err |-> y.err]
               /\ requests' = reqs
               /\ youTrackIssues' = StoreAfter(youTrackIssues, reqs)
               /\ Len(youTrackIssues') <= MaxStored
       /\ UNCHANGED <<asanaTasks, selectedColumns, ignoredTicketsTemp,
                      ignoredTicketsForever, ignoredFile, handlers, permSuppressed>>

---------------------------------------------------------------------------
(* Specification SpecPass: passes of the HTTP analysis and of the console  *)
(* loop over a small board while the remote endpoints answer or fail       *)

BoardTasks ==
    <<[GID |-> "S1", Notes |-> "notes", Memberships |-> <<"Backlog">>],
      [GID |-> "S2", Notes |-> "notes", Memberships |-> <<"Stage">>]>>

BareIssue ==
    [ID |-> IssueIdOf(1), Description |-> BareDescription, CustomFields |-> StateBacklog,
     Project |-> YouTrackProjectID]

\* an issue of another project of the YouTrack instance
ForeignIssue ==
    [ID |-> IssueIdOf(2), Description |-> BareDescription, CustomFields |-> StateBacklog,
     Project |-> "OTHER"]

InitPass ==
    /\ asanaTasks \in {<<>>, BoardTasks}
    /\ youTrackIssues \in {<<>>, <<BareIssue>>, <<ForeignIssue>>}
    /\ selectedColumns = allColumns
    /\ ignoredTicketsTemp = {}
    /\ ignoredTicketsForever = {}
    /\ ignoredFile = {}
    /\ analysis = NoAnalysis
    /\ err = ""
    /\ responses = NoResponses
    /\ calls = <<>>
    /\ fetched = NoFetch
    /\ requests = <<>>
    /\ report = NoReport
    /\ handlers = NoHandlers
    /\ lastOp = "init"
    /\ permSuppressed = {}

NextPass == analyzeTicketsHandler \/ runManualSync

SpecPass == InitPass /\ [][NextPass]_vars

---------------------------------------------------------------------------
(* POST /ignore. net/http serves every request on a goroutine of its own   *)
(* and the handler takes no lock: a permanent request is three steps that  *)
(* interleave with the steps of the other requests in flight               *)

TicketIds == {"S1", "S2"}

IgnoreRequests == [Action : {"add", "remove"}, Type : {"forever", "temp"}, TicketID : TicketIds]

Saving(req) == [pc |-> "save", req |-> req, data |-> {}, undone |-> FALSE]

\* the lowest goroutine slot not in use
FreeSlot(w) == handlers[w] = Idle /\ \A v \in 1..(w - 1) : handlers[v] # Idle

\* a permanent Unsuppress(id) begins: the permanent Suppress(id) calls in flight
\* are overtaken
Overtake(h, id) ==
    [w \in DOMAIN h |->
        IF h[w] # Idle /\ h[w].req.Action = "add" /\ h[w].req.TicketID = id
        THEN [h[w] EXCEPT !.undone = TRUE] ELSE h[w]]

\* decode the body and update the in-memory set; a temporary request ends here
manageIgnoredTicketsHandler ==
    \E req \in IgnoreRequests, w \in 1..MaxInFlight :
       /\ FreeSlot(w)
       /\ IF req.Type = "forever"
          THEN /\ ignoredTicketsForever' =
                      IF req.Action = "add"
                      THEN ignoredTicketsForever \cup {req.TicketID}
                      ELSE ignoredTicketsForever \ {req.TicketID}
               /\ handlers' =
                      IF req.Action = "add"
                      THEN [handlers EXCEPT ![w] = Saving(req)]
                      ELSE [Overtake(handlers, req.TicketID) EXCEPT ![w] = Saving(req)]
               /\ permSuppressed' =
                      IF req.Action = "add" THEN permSuppressed
                      ELSE permSuppressed \ {req.TicketID}
               /\ UNCHANGED ignoredTicketsTemp
          ELSE /\ ignoredTicketsTemp' =
                      IF req.Action = "add"
                      THEN ignoredTicketsTemp \cup {req.TicketID}
                      ELSE ignoredTicketsTemp \ {req.TicketID}
               /\ UNCHANGED <<ignoredTicketsForever, handlers, permSuppressed>>
       /\ NoPass("ignore")
       /\ UNCHANGED <<asanaTasks, youTrackIssues, selectedColumns, ignoredFile>>

\* saveIgnoredTickets, first half: getMapKeys and json.MarshalIndent
saveIgnoredTicketsMarshal ==
    \E w \in 1..MaxInFlight :
       /\ handlers[w].pc = "save"
       /\ handlers' = [handlers EXCEPT ![w].pc = "write",
                                       ![w].data = getMapKeys(ignoredTicketsForever)]
       /\ NoPass("ignore")
       /\ UNCHANGED <<asanaTasks, youTrackIssues, selectedColumns, ignoredTicketsTemp,
                      ignoredTicketsForever, ignoredFile, permSuppressed>>

\* a permanent Suppress(id) that completes counts unless an Unsuppress(id) began
\* while it ran or is still running
Completes(w) ==
    /\ handlers[w].req.Action = "add"
    /\ ~handlers[w].undone
    /\ \A v \in DOMAIN handlers :
          handlers[v] # Idle =>
              ~(handlers[v].req.Action = "remove"
                /\ handlers[v].req.TicketID = handlers[w].req.TicketID)

\* saveIgnoredTickets, second half: os.WriteFile; the handler then answers "success"
saveIgnoredTicketsWrite ==
    \E w \in 1..MaxInFlight :
       /\ handlers[w].pc = "write"
       /\ ignoredFile' = handlers[w].data
       /\ handlers' = [handlers EXCEPT ![w] = Idle]
       /\ permSuppressed' =
              IF Completes(w) THEN permSuppressed \cup {handlers[w].req.TicketID}
              ELSE permSuppressed
       /\ NoPass("ignore")
       /\ UNCHANGED <<asanaTasks, youTrackIssues, selectedColumns, ignoredTicketsTemp,
                      ignoredTicketsForever>>

\* the ids of ignored_tickets.json are added to the map
loadIgnoredTickets(file, forever) == forever \cup file

\* the process ends with its requests in flight and starts again: the sets are
\* made empty (types.go) and loadConfig calls loadIgnoredTickets
Restart ==
    /\ ignoredTicketsTemp' = {}
    /\ ignoredTicketsForever' = loadIgnoredTickets(ignoredFile, {})
    /\ handlers' = NoHandlers
    /\ NoPass("restart")
    /\ UNCHANGED <<asanaTasks, youTrackIssues, selectedColumns, ignoredFile, permSuppressed>>

\* GET /analyze with both systems reachable
analyzeTicketsHandlerReachable == Analyze({AllOk})

---------------------------------------------------------------------------
(* Specification Spec: the service between its start and any number of     *)
(* /ignore requests, restarts and analyses                                 *)

LinkedIssue ==
    [ID |-> IssueIdOf(1), Description |-> SyncedDescription, CustomFields |-> StateBacklog,
     Project |-> YouTrackProjectID]

Init ==
    /\ asanaTasks = BoardTasks
    /\ youTrackIssues = <<LinkedIssue>>
    /\ selectedColumns = allColumns
    /\ ignoredTicketsTemp = {}
    /\ ignoredFile = {}
    /\ ignoredTicketsForever = loadIgnoredTickets(ignoredFile, {})
    /\ analysis = NoAnalysis
    /\ err = ""
    /\ responses = NoResponses
    /\ calls = <<>>
    /\ fetched = NoFetch
    /\ requests = <<>>
    /\ report = NoReport
    /\ handlers = NoHandlers
    /\ lastOp = "init"
    /\ permSuppressed = {}

Next ==
    \/ manageIgnoredTicketsHandler
    \/ saveIgnoredTicketsMarshal
    \/ saveIgnoredTicketsWrite
    \/ Restart
    \/ analyzeTicketsHandlerReachable

Spec == Init /\ [][Next]_vars

---------------------------------------------------------------------------
(* Tags and subsystems                                                     *)

\* the names of the tags of a task, the empty ones dropped
getAsanaTags(task) == SelectSeq(task.Tags, LAMBDA name : name # "")

RECURSIVE SubsystemFromFields(_)
\* the loop of getYouTrackSubsystem over issue.CustomFields
SubsystemFromFields(fields) ==
    IF fields = <<>> THEN ""
    ELSE LET field == Head(fields) IN
         IF field.Name # "Subsystem" THEN SubsystemFromFields(Tail(fields))
         ELSE CASE field.Value.type = "map" /\ field.Value.name # "" -> field.Value.name
                [] field.Value.type = "map" /\ field.Value.localizedName # "" ->
                       field.Value.localizedName
                [] field.Value.type = "string" -> field.Value.str
                [] OTHER -> SubsystemFromFields(Tail(fields))

getYouTrackSubsystem(issue) == SubsystemFromFields(issue.CustomFields)

defaultTagMapping ==
    ("Mobile" :> "mobile") @@ ("Web" :> "web") @@ ("API" :> "backend") @@
    ("Frontend" :> "frontend") @@ ("Backend" :> "backend") @@ ("iOS" :> "mobile") @@
    ("Android" :> "mobile") @@ ("Desktop" :> "desktop") @@ ("Database" :> "backend") @@
    ("UI/UX" :> "frontend") @@ ("DevOps" :> "infrastructure") @@ ("QA" :> "testing") @@
    ("Testing" :> "testing") @@ ("Security" :> "security") @@
    ("Performance" :> "performance")

mapTagToSubsystem(asanaTag) ==
    IF asanaTag \in DOMAIN defaultTagMapping THEN defaultTagMapping[asanaTag]
    ELSE LET asanaTagLower == ToLower(asanaTag) IN
         IF asanaTagLower \in DOMAIN defaultTagMapping
         THEN defaultTagMapping[asanaTagLower]
         ELSE asanaTagLower

checkTagMismatch_ExactCase(asanaTags, youtrackSubsystem) ==
    IF Len(asanaTags) = 0 /\ youtrackSubsystem = "" THEN FALSE
    ELSE IF Len(asanaTags) = 0 \/ youtrackSubsystem = "" THEN TRUE
    ELSE ~\E i \in 1..Len(asanaTags) : mapTagToSubsystem(asanaTags[i]) = youtrackSubsystem

checkTagMismatch(asanaTags, youtrackSubsystem) ==
    IF Len(asanaTags) = 0 /\ youtrackSubsystem = "" THEN FALSE
    ELSE IF Len(asanaTags) = 0 \/ youtrackSubsystem = "" THEN TRUE
    ELSE ~\E i \in 1..Len(asanaTags) :
              EqualFold(mapTagToSubsystem(asanaTags[i]), youtrackSubsystem)

---------------------------------------------------------------------------
(* Requests to YouTrack: the duplicate probe, create and update            *)

\* a request the service sent, with the answer it got
Sent(kind, gid, issueID, payload, answer) ==
    [kind |-> kind, gid |-> gid, issueID |-> issueID, payload |-> payload,
     answer |-> answer]

NoPayload == [summary |-> ""]

\* the URL of the probe: the spaces of the query are replaced by %20
probeURL(title) ==
    "/api/issues?fields=id,summary&query="
        \o Join(Split("project:" \o YouTrackProjectID \o " summary:" \o title, " "), "%20")
        \o "&top=5"

\* http.NewRequest returns an error for a URL that holds a control character
ControlCharacters == {"\t", "\n", "\r"}

NewRequestFails(url) == \E i \in 1..Len(url) : CharAt(url, i) \in ControlCharacters

\* the probe request of a call of isDuplicateTicket, if it is sent
probeRequests(gid, title, answer) ==
    IF NewRequestFails(probeURL(title)) THEN <<>>
    ELSE <<Sent("probe", gid, "", NoPayload, answer)>>

isDuplicateTicket_FailClosed(title, answer) ==
    IF NewRequestFails(probeURL(title)) THEN TRUE
    ELSE IF answer.kind # "ok" THEN TRUE
    ELSE \E i \in 1..Len(answer.issues) : EqualFold(answer.issues[i].Summary, title)

\* answer = what YouTrack answers to the probe: [kind, issues]
isDuplicateTicket(title, answer) ==
    IF NewRequestFails(probeURL(title)) THEN FALSE
    ELSE IF answer.kind = "neterr" THEN FALSE
    ELSE IF answer.kind \in StatusNotOK THEN FALSE
    ELSE IF answer.kind = "badjson" THEN FALSE
    ELSE \E i \in 1..Len(answer.issues) : EqualFold(answer.issues[i].Summary, title)

NoSyncStates == {"FINDINGS_NO_SYNC", "READY_FOR_STAGE_NO_SYNC"}

SubsystemField(subsystem) == [Name |-> "Subsystem", Value |-> MapValue(subsystem, "")]

\* the customFields array of a payload
customFieldsOf(task, state, withSubsystem) ==
    LET asanaTags == getAsanaTags(task) IN
    (IF state # "" THEN <<StateField(state)>> ELSE <<>>)
    \o (IF withSubsystem /\ Len(asanaTags) > 0 /\ mapTagToSubsystem(asanaTags[1]) # ""
        THEN <<SubsystemField(mapTagToSubsystem(asanaTags[1]))>>
        ELSE <<>>)

payloadOf(task, state, withSubsystem) ==
    [summary |-> task.Name,
     description |-> DescriptionOf(task),
     customFields |-> customFieldsOf(task, state, withSubsystem)]

RECURSIVE WithFields(_, _)
\* the custom fields of an issue after YouTrack applied those of a payload
WithFields(fields, new) ==
    IF new = <<>> THEN fields
    ELSE WithFields(
             IF \E i \in 1..Len(fields) : fields[i].Name = Head(new).Name
             THEN [i \in 1..Len(fields) |->
                      IF fields[i].Name = Head(new).Name THEN Head(new) ELSE fields[i]]
             ELSE Append(fields, Head(new)),
             Tail(new))

\* YouTrack after an accepted POST /api/issues
Created(store, payload) ==
    Append(store, [ID |-> IssueIdOf(Len(store) + 1), Summary |-> payload.summary,
                   Description |-> payload.description,
                   CustomFields |-> payload.customFields,
                   Project |-> YouTrackProjectID])

\* YouTrack after an accepted POST /api/issues/<issueID>
Updated(store, issueID, payload) ==
    [i \in 1..Len(store) |->
        IF store[i].ID = issueID
        THEN [store[i] EXCEPT !.Summary = payload.summary,
                              !.Description = payload.description,
                              !.CustomFields = WithFields(@, payload.customFields)]
        ELSE store[i]]

\* what a call returns: the error ("" = nil), the requests it sent, YouTrack after it
Returned(error, sent, store) == [err |-> error, sent |-> sent, store |-> store]

\* probe, write = what YouTrack answers to the probe and to the POST
createYouTrackIssue(task, probe, write, store) ==
    LET probed == probeRequests(task.GID, task.Name, probe)
        state == mapAsanaStateToYouTrack(task)
        payload == payloadOf(task, state, TRUE)
        sent == probed \o <<Sent("create", task.GID, "", payload, write)>>
    IN
    IF isDuplicateTicket(task.Name, probe)
    THEN Returned("ticket with title already exists in YouTrack", probed, store)
    ELSE IF state \in NoSyncStates
    THEN Returned("cannot create ticket for display-only column", probed, store)
    ELSE IF write = "neterr" THEN Returned("network error", sent, store)
    ELSE IF write # "ok" THEN Returned("YouTrack create error", sent, store)
    ELSE Returned("", sent, Created(store, payload))

\* the second request of an update: the State field only
updateYouTrackIssueWithoutSubsystem(issueID, task, retry, store) ==
    LET state == mapAsanaStateToYouTrack(task)
        payload == payloadOf(task, state, FALSE)
        sent == <<Sent("retry", task.GID, issueID, payload, retry)>>
    IN
    IF retry = "neterr" THEN Returned("network error", sent, store)
    ELSE IF retry # "ok" THEN Returned("YouTrack update error", sent, store)
    ELSE Returned("", sent, Updated(store, issueID, payload))

updateYouTrackIssue_RetryLoops(issueID, task, write, retry, store) ==
    LET state == mapAsanaStateToYouTrack(task)
        payload == payloadOf(task, state, TRUE)
        sent == <<Sent("update", task.GID, issueID, payload, write)>>
        again == updateYouTrackIssueWithoutSubsystem(issueID, task, retry, store)
    IN
    IF state \in NoSyncStates
    THEN Returned("cannot update ticket for display-only column", <<>>, store)
    ELSE IF write = "neterr" THEN Returned("network error", sent, store)
    ELSE IF write # "ok"
    THEN Returned(again.err, sent \o again.sent \o (IF again.err # "" THEN again.sent ELSE <<>>),
                  again.store)
    ELSE Returned("", sent, Updated(store, issueID, payload))

\* write, retry = what YouTrack answers to the first and to the second POST;
\* "subsystem" = rejected, the body naming the Subsystem field
updateYouTrackIssue(issueID, task, write, retry, store) ==
    LET state == mapAsanaStateToYouTrack(task)
        payload == payloadOf(task, state, TRUE)
        sent == <<Sent("update", task.GID, issueID, payload, write)>>
        again == updateYouTrackIssueWithoutSubsystem(issueID, task, retry, store)
    IN
    IF state \in NoSyncStates
    THEN Returned("cannot update ticket for display-only column", <<>>, store)
    ELSE IF write = "neterr" THEN Returned("network error", sent, store)
    ELSE IF write = "subsystem" THEN Returned(again.err, sent \o again.sent, again.store)
    ELSE IF write # "ok" THEN Returned("YouTrack update error", sent, store)
    ELSE Returned("", sent, Updated(store, issueID, payload))

---------------------------------------------------------------------------
(* What YouTrack answers to the requests of one operation                  *)

\* the candidates of a probe answer, relative to the title asked for
Candidates(title, cands) ==
    CASE cands = "match" -> <<[Summary |-> title \o "s"], [Summary |-> ToLower(title)]>>
      [] cands = "near" -> <<[Summary |-> title \o "s"]>>
      [] OTHER -> <<>>

\* the answer to the probe for a title
ProbeAnswer(title, probe) ==
    [kind |-> probe.kind, issues |-> Candidates(title, probe.cands)]

Probe(kind, cands) == [kind |-> kind, cands |-> cands]

\* the answers to the requests about one ticket: to the probe of the caller, to the
\* probe of createYouTrackIssue, to the POST and to the second POST of an update
Answer(probe, probe2, write, retry) ==
    [probe |-> probe, probe2 |-> probe2, write |-> write, retry |-> retry]

Same(probe, write) == Answer(probe, probe, write, "ok")

CreateAnswers ==
    {Same(Probe(kind, "none"), "ok") : kind \in FailureKinds}
    \cup {Same(Probe("ok", "none"), write) : write \in {"ok", "status", "neterr"}}
    \cup {Same(Probe("ok", "match"), "ok"), Same(Probe("ok", "near"), "ok"),
          Answer(Probe("ok", "none"), Probe("ok", "match"), "ok", "ok")}

BulkCreateAnswers ==
    {Same(Probe("neterr", "none"), "ok"), Same(Probe("ok", "none"), "ok"),
     Same(Probe("ok", "none"), "status"), Same(Probe("ok", "match"), "ok")}

UpdateAnswers ==
    {Same(Probe("ok", "none"), write) : write \in {"ok", "status", "neterr"}}
    \cup {Answer(Probe("ok", "none"), Probe("ok", "none"), "subsystem", retry) :
             retry \in {"ok", "status", "neterr", "subsystem"}}

BulkUpdateAnswers ==
    {a \in UpdateAnswers : a.write \in {"ok", "status", "subsystem"}
                           /\ a.retry \in {"ok", "status"}}

\* Asana answers, or rejects the request
FetchEnvironments == {AllOk, Down({"asana"}, "status")}

---------------------------------------------------------------------------
(* POST /create and the console's performBatchCreate                       *)

Result(id, status, error) == [ticket_id |-> id, status |-> status, error |-> error]

NoProgress(store) ==
    [results |-> <<>>, created |-> 0, skipped |-> 0, failed |-> 0, synced |-> 0,
     sent |-> <<>>, store |-> store]

\* one task: the probe of the caller, then createYouTrackIssue;
\* ans = the answers of YouTrack to the requests about the task
createOne(task, ans, acc) ==
    LET probe == ProbeAnswer(task.Name, ans.probe)
        probed == probeRequests(task.GID, task.Name, probe)
        r == createYouTrackIssue(task, ProbeAnswer(task.Name, ans.probe2), ans.write,
                                 acc.store)
    IN
    IF isDuplicateTicket(task.Name, probe)
    THEN [acc EXCEPT !.results = Append(@, Result(task.GID, "skipped", "")),
                     !.skipped = @ + 1,
                     !.sent = @ \o probed]
    ELSE IF r.err # ""
    THEN [acc EXCEPT !.results = Append(@, Result(task.GID, "failed", r.err)),
                     !.failed = @ + 1,
                     !.sent = @ \o probed \o r.sent]
    ELSE [acc EXCEPT !.results = Append(@, Result(task.GID, "created", "")),
                     !.created = @ + 1,
                     !.sent = @ \o probed \o r.sent,
                     !.store = r.store]

RECURSIVE createLoop_StopsOnFailure(_, _, _)
createLoop_StopsOnFailure(tasks, env, acc) ==
    IF tasks = <<>> THEN acc
    ELSE LET next == createOne(Head(tasks), env[Head(tasks).GID], acc) IN
         IF next.created = acc.created THEN next
         ELSE createLoop_StopsOnFailure(Tail(tasks), env, next)

RECURSIVE createLoop(_, _, _)
\* the loop over the tasks to create; env = the answers of YouTrack, by gid
createLoop(tasks, env, acc) ==
    IF tasks = <<>> THEN acc
    ELSE createLoop(Tail(tasks), env, createOne(Head(tasks), env[Head(tasks).GID], acc))

\* the classification an operation starts with
Started(r, env, cols) ==
    /\ analysis' = r.analysis
    /\ err' = r.err
    /\ responses' = env
    /\ calls' = r.calls
    /\ fetched' = r.fetched
    /\ selectedColumns' = cols

\* POST /create: every task of MissingYouTrack
createMissingTicketsHandler ==
    /\ lastOp = "init"
    /\ \E fetch \in FetchEnvironments :
       \E r \in {performTicketAnalysis(syncableColumns, fetch, asanaTasks, youTrackIssues,
                                       ignoredTicketsTemp, ignoredTicketsForever)} :
          /\ Started(r, fetch, syncableColumns)
          /\ lastOp' = "createMissing"
          /\ IF r.err # ""
             THEN /\ report' = [status |-> "error", code |-> 500]
                  /\ requests' = <<>>
                  /\ UNCHANGED youTrackIssues
             ELSE IF Len(r.analysis.MissingYouTrack) = 0
             THEN /\ report' = [status |-> "success", code |-> 200, created |-> 0]
                  /\ requests' = <<>>
                  /\ UNCHANGED youTrackIssues
             ELSE \E env \in [asanaMapOf(r.analysis.MissingYouTrack) -> BulkCreateAnswers] :
                     \E done \in {createLoop(r.analysis.MissingYouTrack, env,
                                             NoProgress(youTrackIssues))} :
                        /\ report' = [status |-> "completed", code |-> 200,
                                      created |-> done.created, skipped |-> done.skipped,
                                      total |-> Len(r.analysis.MissingYouTrack),
                                      results |-> done.results]
                        /\ requests' = done.sent
                        /\ youTrackIssues' = done.store
          /\ UNCHANGED <<asanaTasks, ignoredTicketsTemp, ignoredTicketsForever, ignoredFile,
                         handlers, permSuppressed>>

\* the console: the missing tasks of the pass just shown, all selected
performBatchCreate ==
    /\ lastOp = "init"
    /\ \E r \in {performTicketAnalysis(syncableColumns, AllOk, asanaTasks, youTrackIssues,
                                    ignoredTicketsTemp, ignoredTicketsForever)} :
       /\ Len(r.analysis.MissingYouTrack) > 0
       /\ Started(r, AllOk, syncableColumns)
       /\ lastOp' = "batchCreate"
       /\ \E env \in [asanaMapOf(r.analysis.MissingYouTrack) -> BulkCreateAnswers] :
             \E done \in {createLoop(r.analysis.MissingYouTrack, env,
                                     NoProgress(youTrackIssues))} :
                /\ report' = [status |-> "summary", created |-> done.created,
                              skipped |-> done.skipped, failed |-> done.failed,
                              total |-> Len(r.analysis.MissingYouTrack),
                              results |-> done.results]
                /\ requests' = done.sent
                /\ youTrackIssues' = done.store
       /\ UNCHANGED <<asanaTasks, ignoredTicketsTemp, ignoredTicketsForever, ignoredFile,
                      handlers, permSuppressed>>

---------------------------------------------------------------------------
(* POST /create-single                                                     *)

\* the first task with the id, as the loop over allTasks finds it
FindTask(tasks, taskID) ==
    LET found == {i \in 1..Len(tasks) : tasks[i].GID = taskID} IN
    IF found = {} THEN <<>>
    ELSE <<tasks[CHOOSE i \in found : \A j \in found : i <= j]>>

createSingleTicketHandler ==
    /\ lastOp = "init"
    /\ \E taskID \in asanaMapOf(asanaTasks) \cup {"S9"}, fetch \in FetchEnvironments :
       LET a == getAsanaTasks(fetch, asanaTasks)
           targetTask == FindTask(a.tasks, taskID)
       IN
       /\ analysis' = NoAnalysis
       /\ err' = a.err
       /\ responses' = fetch
       /\ calls' = <<Call("getAsanaTasks", a.err)>>
       /\ fetched' = NoFetch
       /\ lastOp' = "createSingle"
       /\ IF a.err # ""
          THEN /\ report' = [status |-> "error", code |-> 500, task_id |-> taskID]
               /\ requests' = <<>>
               /\ UNCHANGED youTrackIssues
          ELSE IF targetTask = <<>>
          THEN /\ report' = [status |-> "error", code |-> 404, task_id |-> taskID]
               /\ requests' = <<>>
               /\ UNCHANGED youTrackIssues
          ELSE \E ans \in CreateAnswers :
                  \E done \in {createOne(targetTask[1], ans, NoProgress(youTrackIssues))} :
                     /\ report' = [status |-> done.results[1].status,
                                   code |-> IF done.results[1].status = "failed"
                                            THEN 500 ELSE 200,
                                   task_id |-> taskID, error |-> done.results[1].error]
                     /\ requests' = done.sent
                     /\ youTrackIssues' = done.store
       /\ UNCHANGED <<asanaTasks, selectedColumns, ignoredTicketsTemp,
                      ignoredTicketsForever, ignoredFile, handlers, permSuppressed>>

---------------------------------------------------------------------------
(* POST /sync, the console's performBatchSync and the client's Sync All    *)

SyncProgress(store, temp, forever, file) ==
    [results |-> <<>>, created |-> 0, skipped |-> 0, failed |-> 0, synced |-> 0,
     sent |-> <<>>, store |-> store, temp |-> temp, forever |-> forever, file |-> file,
     thrown |-> FALSE]

\* mismatchMap[ticket.AsanaTask.GID] = ticket, a later ticket replacing an earlier one
mismatchMapOf(tickets) ==
    [gid \in {tickets[i].AsanaTask.GID : i \in 1..Len(tickets)} |->
        tickets[CHOOSE i \in 1..Len(tickets) :
                   /\ tickets[i].AsanaTask.GID = gid
                   /\ \A j \in 1..Len(tickets) : tickets[j].AsanaTask.GID = gid => j <= i]]

GidsOfMismatched(an) == {an.Mismatched[i].AsanaTask.GID : i \in 1..Len(an.Mismatched)}

\* one ticket: updateYouTrackIssue, and its outcome recorded
syncTicket(ticket, ans, acc) ==
    LET r == updateYouTrackIssue(ticket.YouTrackIssue.ID, ticket.AsanaTask, ans.write,
                                 ans.retry, acc.store)
    IN
    IF r.err # ""
    THEN [acc EXCEPT !.results = Append(@, Result(ticket.AsanaTask.GID, "failed", r.err)),
                     !.failed = @ + 1,
                     !.sent = @ \o r.sent]
    ELSE [acc EXCEPT !.results = Append(@, Result(ticket.AsanaTask.GID, "synced", "")),
                     !.synced = @ + 1,
                     !.sent = @ \o r.sent,
                     !.store = r.store]

\* the body of the loop with the switch on the action ahead of the lookup: an ignore
\* entry takes effect whether the mismatched list holds the ticket or not
syncOne_IgnoresUnlisted(req, mismatchMap, env, acc) ==
    CASE req.action = "ignore_temp" ->
             [acc EXCEPT !.temp = @ \cup {req.ticket_id},
                         !.results = Append(@, Result(req.ticket_id,
                                                      "ignored_temporarily", ""))]
      [] req.action = "ignore_forever" ->
             [acc EXCEPT !.forever = @ \cup {req.ticket_id},
                         !.file = getMapKeys(acc.forever \cup {req.ticket_id}),
                         !.results = Append(@, Result(req.ticket_id,
                                                      "ignored_permanently", ""))]
      [] req.ticket_id \notin DOMAIN mismatchMap ->
             [acc EXCEPT !.results = Append(@, Result(req.ticket_id, "failed",
                                                      "Ticket not found in mismatched list"))]
      [] req.action = "sync" ->
             syncTicket(mismatchMap[req.ticket_id], env[req.ticket_id], acc)
      [] OTHER ->
             [acc EXCEPT !.results = Append(@, Result(req.ticket_id, "failed",
                                                      "Invalid action"))]

\* the body of the loop over the requests of a POST /sync
syncOne(req, mismatchMap, env, acc) ==
    IF req.ticket_id \notin DOMAIN mismatchMap
    THEN [acc EXCEPT !.results = Append(@, Result(req.ticket_id, "failed",
                                                  "Ticket not found in mismatched list"))]
    ELSE CASE req.action = "sync" ->
                  syncTicket(mismatchMap[req.ticket_id], env[req.ticket_id], acc)
           [] req.action = "ignore_temp" ->
                  [acc EXCEPT !.temp = @ \cup {req.ticket_id},
                              !.results = Append(@, Result(req.ticket_id,
                                                           "ignored_temporarily", ""))]
           [] req.action = "ignore_forever" ->
                  [acc EXCEPT !.forever = @ \cup {req.ticket_id},
                              !.file = getMapKeys(acc.forever \cup {req.ticket_id}),
                              !.results = Append(@, Result(req.ticket_id,
                                                           "ignored_permanently", ""))]
           [] OTHER ->
                  [acc EXCEPT !.results = Append(@, Result(req.ticket_id, "failed",
                                                           "Invalid action"))]

RECURSIVE syncLoop_StopsOnFailure(_, _, _, _)
syncLoop_StopsOnFailure(reqs, mismatchMap, env, acc) ==
    IF reqs = <<>> THEN acc
    ELSE LET next == syncOne(Head(reqs), mismatchMap, env, acc) IN
         IF next.failed > acc.failed THEN next
         ELSE syncLoop_StopsOnFailure(Tail(reqs), mismatchMap, env, next)

RECURSIVE syncLoop(_, _, _, _)
syncLoop(reqs, mismatchMap, env, acc) ==
    IF reqs = <<>> THEN acc
    ELSE syncLoop(Tail(reqs), mismatchMap, env, syncOne(Head(reqs), mismatchMap, env, acc))

SyncRequest(id, action) == [ticket_id |-> id, action |-> action]

MaxBatch == 2

\* the actions of an entry other than "sync"; "delete" is not an action of the service
OtherActions == {"ignore_temp", "ignore_forever", "delete"}

\* the bodies of POST /sync: batches of "sync" entries, one entry of the other actions,
\* and a "sync" entry for a ticket before or after another entry for it
SyncRequests(ids) ==
    UNION {{[i \in 1..n |-> SyncRequest(f[i], "sync")] : f \in [1..n -> ids \cup {"S9"}]} :
           n \in 1..MaxBatch}
    \cup {<<SyncRequest(id, action)>> : id \in ids \cup {"S9"}, action \in OtherActions}
    \cup {<<SyncRequest(id, action), SyncRequest(id, "sync")>> :
             id \in ids, action \in OtherActions}
    \cup {<<SyncRequest(id, "sync"), SyncRequest(id, action)>> :
             id \in ids, action \in OtherActions}

\* the ids a batch sends an update for
Synced(reqs, mismatchMap) ==
    {reqs[i].ticket_id : i \in {j \in 1..Len(reqs) :
                                   /\ reqs[j].action = "sync"
                                   /\ reqs[j].ticket_id \in DOMAIN mismatchMap}}

\* the effect of a sync operation on the service and on YouTrack
Finished(done) ==
    /\ requests' = done.sent
    /\ youTrackIssues' = done.store
    /\ ignoredTicketsTemp' = done.temp
    /\ ignoredTicketsForever' = done.forever
    /\ ignoredFile' = done.file
    /\ permSuppressed' = permSuppressed \cup (done.forever \ ignoredTicketsForever)

syncMismatchedTicketsHandler ==
    /\ lastOp = "init"
    /\ \E fetch \in FetchEnvironments :
       \E r \in {performTicketAnalysis(syncableColumns, fetch, asanaTasks, youTrackIssues,
                                       ignoredTicketsTemp, ignoredTicketsForever)},
          reqs \in SyncRequests(asanaMapOf(asanaTasks)) :
          /\ Started(r, fetch, syncableColumns)
          /\ lastOp' = "sync"
          /\ IF r.err # ""
             THEN /\ report' = [status |-> "error", code |-> 500, requests |-> reqs]
                  /\ requests' = <<>>
                  /\ UNCHANGED <<youTrackIssues, ignoredTicketsTemp, ignoredTicketsForever,
                                 ignoredFile, permSuppressed>>
             ELSE LET mismatchMap == mismatchMapOf(r.analysis.Mismatched) IN
                  \E env \in [Synced(reqs, mismatchMap) ->
                                 IF Len(reqs) = 1 THEN UpdateAnswers ELSE BulkUpdateAnswers] :
                     \E done \in {syncLoop(reqs, mismatchMap, env,
                                           SyncProgress(youTrackIssues, ignoredTicketsTemp,
                                                        ignoredTicketsForever, ignoredFile))} :
                        /\ report' = [status |-> "completed", code |-> 200,
                                      synced |-> done.synced, total |-> Len(reqs),
                                      results |-> done.results, requests |-> reqs]
                        /\ Finished(done)
          /\ UNCHANGED <<asanaTasks, handlers>>

RECURSIVE batchSyncLoop(_, _, _)
batchSyncLoop(tickets, env, acc) ==
    IF tickets = <<>> THEN acc
    ELSE batchSyncLoop(Tail(tickets), env,
                       syncTicket(Head(tickets), env[Head(tickets).AsanaTask.GID], acc))

\* the console: the mismatched tickets of the pass just shown, all selected;
\* the operator confirms or cancels
performBatchSync ==
    /\ lastOp = "init"
    /\ \E confirm \in BOOLEAN :
       \E r \in {performTicketAnalysis(syncableColumns, AllOk, asanaTasks, youTrackIssues,
                                       ignoredTicketsTemp, ignoredTicketsForever)} :
          /\ Len(r.analysis.Mismatched) > 0
          /\ Started(r, AllOk, syncableColumns)
          /\ lastOp' = "batchSync"
          /\ IF ~confirm
             THEN /\ report' = [status |-> "cancelled"]
                  /\ requests' = <<>>
                  /\ UNCHANGED youTrackIssues
             ELSE \E env \in [GidsOfMismatched(r.analysis) -> BulkUpdateAnswers] :
                     \E done \in {batchSyncLoop(r.analysis.Mismatched, env,
                                                SyncProgress(youTrackIssues, {}, {}, {}))} :
                        /\ report' = [status |-> "summary", synced |-> done.synced,
                                      failed |-> done.failed,
                                      total |-> Len(r.analysis.Mismatched),
                                      results |-> done.results]
                        /\ requests' = done.sent
                        /\ youTrackIssues' = done.store
          /\ UNCHANGED <<asanaTasks, ignoredTicketsTemp, ignoredTicketsForever, ignoredFile,
                         handlers, permSuppressed>>

\* the POST /sync the client sends for one ticket, as the server serves it; the
\* client throws when the answer is not a 2xx
syncSingleTicket(ticketId, fetch, env, acc) ==
    LET r == performTicketAnalysis(syncableColumns, fetch, asanaTasks, acc.store, acc.temp,
                                   acc.forever)
    IN
    IF r.err # ""
    THEN [acc EXCEPT !.results = Append(@, Result(ticketId, "error", "Sync failed: 500")),
                     !.thrown = TRUE]
    ELSE syncOne(SyncRequest(ticketId, "sync"), mismatchMapOf(r.analysis.Mismatched), env,
                 acc)

RECURSIVE syncAllLoop(_, _, _, _)
\* for (const ticket of analysis.mismatched) await onSync(ticket.asana_task.gid)
syncAllLoop(tickets, up, env, acc) ==
    IF tickets = <<>> THEN acc
    ELSE LET gid == Head(tickets).AsanaTask.GID
             next == syncSingleTicket(gid, up[gid], env, acc)
         IN IF next.thrown THEN next ELSE syncAllLoop(Tail(tickets), up, env, next)

\* Sync All on the results page, which shows the analysis of all columns
handleSyncAll ==
    /\ lastOp = "init"
    /\ \E shown \in {performTicketAnalysis(allColumns, AllOk, asanaTasks, youTrackIssues,
                                        ignoredTicketsTemp, ignoredTicketsForever)} :
       /\ Len(shown.analysis.Mismatched) > 0
       /\ Started(shown, AllOk, allColumns)
       /\ lastOp' = "syncAll"
       /\ \E up \in [GidsOfMismatched(shown.analysis) -> FetchEnvironments],
             env \in [GidsOfMismatched(shown.analysis) -> BulkUpdateAnswers] :
             \E done \in {syncAllLoop(shown.analysis.Mismatched, up, env,
                                      SyncProgress(youTrackIssues, ignoredTicketsTemp,
                                                   ignoredTicketsForever, ignoredFile))} :
                /\ report' = [status |-> IF done.thrown THEN "thrown" ELSE "done",
                              synced |-> done.synced, failed |-> done.failed,
                              total |-> Len(shown.analysis.Mismatched),
                              results |-> done.results]
                /\ Finished(done)
       /\ UNCHANGED <<asanaTasks, handlers>>

---------------------------------------------------------------------------
(* Specification SpecWrite: the operations that write to YouTrack, one     *)
(* request at a time, over every small board                               *)

\* the tasks of a board: name, notes, column and tags
WriteTask(name, notes, section, tags) ==
    [Name |-> name, Notes |-> notes, Memberships |-> <<section>>, Tags |-> tags]

\* the tasks a board is made of, in the order of the board
WriteTaskShapes ==
    <<WriteTask("Fix A", "notes", "Backlog", <<>>),
      WriteTask("Fix B", "notes", "Stage", <<"", "Mobile">>),
      WriteTask("Fix C", "notes", "Dev Findings", <<>>),
      WriteTask("Fix D", "notes", "Findings", <<>>),
      WriteTask("Fix E", "re Asana ID: 9", "Stage", <<"Custom">>),
      WriteTask("Fix\tF", "notes", "Backlog", <<>>)>>

RECURSIVE Pick(_, _)
\* the elements of seq at the positions idx, in their order
Pick(seq, idx) ==
    IF idx = {} THEN <<>>
    ELSE LET i == CHOOSE i \in idx : \A j \in idx : i <= j IN
         <<seq[i]>> \o Pick(seq, idx \ {i})

\* the i-th task of a board has gid S<i>
Numbered(shapes) ==
    [i \in 1..Len(shapes) |->
        [GID |-> GidOf(i), Name |-> shapes[i].Name, Notes |-> shapes[i].Notes,
         Memberships |-> shapes[i].Memberships, Tags |-> shapes[i].Tags]]

WriteBoards ==
    {Numbered(Pick(WriteTaskShapes, idx)) :
        idx \in {s \in SUBSET (1..Len(WriteTaskShapes)) : Cardinality(s) \in 1..MaxBatch}}

\* the issue an earlier create left for a task, still in Backlog
IssueOf(task, n) ==
    [ID |-> IssueIdOf(n), Summary |-> task.Name,
     Description |-> "notes\n\n[Synced from Asana ID: " \o task.GID \o "]",
     CustomFields |-> StateBacklog, Project |-> YouTrackProjectID]

\* YouTrack holds no issue, or one for every task of the board
LinkedStores(tasks) == {<<>>, [i \in 1..Len(tasks) |-> IssueOf(tasks[i], i)]}

\* what earlier POST /ignore requests left: nothing, or the first task of the board
\* suppressed for the session or for good
SuppressedBefore == {<<{}, {}>>, <<{GidOf(1)}, {}>>, <<{}, {GidOf(1)}>>}

InitWrite ==
    /\ asanaTasks \in WriteBoards
    /\ youTrackIssues \in LinkedStores(asanaTasks)
    /\ selectedColumns = syncableColumns
    /\ \E sets \in SuppressedBefore :
          ignoredTicketsTemp = sets[1] /\ ignoredTicketsForever = sets[2]
    /\ ignoredFile = ignoredTicketsForever
    /\ analysis = NoAnalysis
    /\ err = ""
    /\ responses = NoResponses
    /\ calls = <<>>
    /\ fetched = NoFetch
    /\ requests = <<>>
    /\ report = NoReport
    /\ handlers = NoHandlers
    /\ lastOp = "init"
    /\ permSuppressed = {}

NextWrite ==
    \/ createMissingTicketsHandler
    \/ performBatchCreate
    \/ createSingleTicketHandler
    \/ syncMismatchedTicketsHandler
    \/ performBatchSync
    \/ handleSyncAll

SpecWrite == InitWrite /\ [][NextWrite]_vars

---------------------------------------------------------------------------
(* Specification SpecTags: checkTagMismatch applied to every small tag     *)
(* list and subsystem                                                      *)

MaxTags == 2

TagNames == {"Mobile", "mobile", "API", "Custom", ""}

TagLists == UNION {[1..n -> TagNames] : n \in 0..MaxTags}

\* the Subsystem field of an issue as YouTrack returns it
SubsystemChoices ==
    {<<>>,
     <<SubsystemField("mobile")>>,
     <<SubsystemField("Mobile")>>,
     <<SubsystemField("BACKEND")>>,
     <<[Name |-> "Subsystem", Value |-> MapValue("", "custom")]>>,
     <<[Name |-> "Subsystem", Value |-> StringValue("web")]>>}

InitTags ==
    /\ asanaTasks \in {Numbered(<<WriteTask("Fix A", "notes", "Backlog", tags)>>) :
                          tags \in TagLists}
    /\ youTrackIssues \in {<<[ID |-> IssueIdOf(1), Summary |-> "Fix A",
                              Description |-> SyncedDescription, CustomFields |-> fields,
                              Project |-> YouTrackProjectID]>> :
                              fields \in SubsystemChoices}
    /\ selectedColumns = syncableColumns
    /\ ignoredTicketsTemp = {}
    /\ ignoredTicketsForever = {}
    /\ ignoredFile = {}
    /\ analysis = NoAnalysis
    /\ err = ""
    /\ responses = NoResponses
    /\ calls = <<>>
    /\ fetched = NoFetch
    /\ requests = <<>>
    /\ report = NoReport
    /\ handlers = NoHandlers
    /\ lastOp = "init"
    /\ permSuppressed = {}

\* the tags of the task compared with the subsystem of its issue
TagCheck ==
    /\ lastOp = "init"
    /\ analysis' = NoAnalysis
    /\ err' = ""
    /\ responses' = NoResponses
    /\ calls' = <<>>
    /\ fetched' = NoFetch
    /\ requests' = <<>>
    /\ lastOp' = "tagCheck"
    /\ report' = [status |-> "tagCheck",
                  asanaTags |-> getAsanaTags(asanaTasks[1]),
                  youtrackSubsystem |-> getYouTrackSubsystem(youTrackIssues[1]),
                  TagMismatch |->
                      checkTagMismatch(getAsanaTags(asanaTasks[1]),
                                       getYouTrackSubsystem(youTrackIssues[1]))]
    /\ UNCHANGED <<asanaTasks, youTrackIssues, selectedColumns, ignoredTicketsTemp,
                   ignoredTicketsForever, ignoredFile, handlers, permSuppressed>>

NextTags == TagCheck

SpecTags == InitTags /\ [][NextTags]_vars

---------------------------------------------------------------------------
(* Specification SpecMapping: mapAsanaStateToYouTrack and mapTagToSubsystem *)
(* applied to one task                                                      *)

\* the memberships of the task: none, or one section
MappingSections ==
    {<<>>, <<"">>, <<"Backlog">>, <<"In Progress">>, <<"Dev">>, <<"STAGE">>, <<"Blocked">>,
     <<"Findings">>, <<"Ready for Stage">>, <<"Dev Findings">>, <<"Ready for Dev">>,
     <<"Blocked Backlog">>, <<"Stage Blocked">>, <<"Done">>}

\* the tags of the task
MappingTags == {"Mobile", "mobile", "MOBILE", "API", "api", "iOS", "Custom", ""}

InitMapping ==
    /\ asanaTasks \in {<<[GID |-> GidOf(1), Name |-> "Fix A", Notes |-> "notes",
                          Memberships |-> section, Tags |-> <<tag>>]>> :
                          section \in MappingSections, tag \in MappingTags}
    /\ youTrackIssues = <<>>
    /\ selectedColumns = syncableColumns
    /\ ignoredTicketsTemp = {}
    /\ ignoredTicketsForever = {}
    /\ ignoredFile = {}
    /\ analysis = NoAnalysis
    /\ err = ""
    /\ responses = NoResponses
    /\ calls = <<>>
    /\ fetched = NoFetch
    /\ requests = <<>>
    /\ report = NoReport
    /\ handlers = NoHandlers
    /\ lastOp = "init"
    /\ permSuppressed = {}

\* a pure function has been applied: nothing but the record of the call changes
Applied(op, result) ==
    /\ lastOp = "init"
    /\ analysis' = NoAnalysis
    /\ err' = ""
    /\ responses' = NoResponses
    /\ calls' = <<>>
    /\ fetched' = NoFetch
    /\ requests' = <<>>
    /\ lastOp' = op
    /\ report' = result
    /\ UNCHANGED <<asanaTasks, youTrackIssues, selectedColumns, ignoredTicketsTemp,
                   ignoredTicketsForever, ignoredFile, handlers, permSuppressed>>

\* the state of the task is asked for
MapState ==
    Applied("mapState", [status |-> "mapState", task |-> asanaTasks[1],
                         state |-> mapAsanaStateToYouTrack(asanaTasks[1])])

\* the subsystem of the first tag of the task is asked for
MapTag ==
    Applied("mapTag", [status |-> "mapTag", asanaTag |-> asanaTasks[1].Tags[1],
                       subsystem |-> mapTagToSubsystem(asanaTasks[1].Tags[1])])

NextMapping == MapState \/ MapTag

SpecMapping == InitMapping /\ [][NextMapping]_vars

---------------------------------------------------------------------------
(* Specification SpecRace: a GET /analyze and a POST /ignore served at the *)
(* same time, each on its goroutine.  handlers[1] is the classification,   *)
(* handlers[2] the suppression request; a pc names the statement the       *)
(* goroutine is executing.  Neither takes a lock.                          *)

\* the goroutine of the classification, executing the statement pc
Analysing(pc, i, keys, skipped) ==
    [pc |-> pc, i |-> i, keys |-> keys, skipped |-> skipped]

\* the maps the statement a goroutine is executing reads
ReadsOf(h) ==
    CASE h.pc = "getMapKeys" -> {"forever"}
      [] h.pc = "isIgnored" ->
             IF asanaTasks[h.i].GID \in ignoredTicketsTemp THEN {"temp"}
             ELSE {"temp", "forever"}
      [] OTHER -> {}

\* the map the statement a goroutine is executing writes
WritesOf(h) == IF h.pc = "assign" THEN {h.req.Type} ELSE {}

\* the classification reads a map the suppression request is writing
Race == ReadsOf(handlers[1]) \cap WritesOf(handlers[2]) # {}

\* a map after the assignment or the delete of the request
AssignedTo(m, req) == IF req.Action = "add" THEN m \cup {req.TicketID} ELSE m \ {req.TicketID}

\* what a read of the map can return: the map, or, when the map is being written,
\* the map before or after that write
Views(name, m) ==
    IF name \in ReadsOf(handlers[1]) \cap WritesOf(handlers[2])
    THEN {m, AssignedTo(m, handlers[2].req)}
    ELSE {m}

\* the goroutine of the dead process
Dead == [pc |-> "dead"]

\* GET /analyze arrives: snapshots fetched and indexed, the literal of the result begun
raceAnalyzeBegin ==
    /\ handlers[1] = Idle
    /\ handlers' = [handlers EXCEPT ![1] = Analysing("getMapKeys", 0, {}, {})]
    /\ NoPass("analyzeBegin")
    /\ UNCHANGED <<asanaTasks, youTrackIssues, selectedColumns, ignoredTicketsTemp,
                   ignoredTicketsForever, ignoredFile, permSuppressed>>

\* getMapKeys(ignoredTicketsForever) returns
raceGetMapKeys ==
    /\ handlers[1].pc = "getMapKeys"
    /\ \E keys \in Views("forever", ignoredTicketsForever) :
          handlers' = [handlers EXCEPT ![1] =
                          IF asanaTasks = <<>> THEN Analysing("process", 0, keys, {})
                          ELSE Analysing("isIgnored", 1, keys, {})]
    /\ NoPass("analyzeStep")
    /\ UNCHANGED <<asanaTasks, youTrackIssues, selectedColumns, ignoredTicketsTemp,
                   ignoredTicketsForever, ignoredFile, permSuppressed>>

\* isIgnored(task.GID) returns for the i-th task
raceIsIgnored ==
    /\ handlers[1].pc = "isIgnored"
    /\ LET h == handlers[1]
           gid == asanaTasks[h.i].GID
       IN \E temp \in Views("temp", ignoredTicketsTemp),
             forever \in Views("forever", ignoredTicketsForever) :
             handlers' = [handlers EXCEPT ![1] =
                 Analysing("process", h.i, h.keys,
                           IF isIgnored(gid, temp, forever) THEN h.skipped \cup {gid}
                           ELSE h.skipped)]
    /\ NoPass("analyzeStep")
    /\ UNCHANGED <<asanaTasks, youTrackIssues, selectedColumns, ignoredTicketsTemp,
                   ignoredTicketsForever, ignoredFile, permSuppressed>>

\* the rest of the loop body; after the last task the orphans are collected and the
\* result is returned
raceProcessTask ==
    /\ handlers[1].pc = "process"
    /\ LET h == handlers[1] IN
       IF h.i < Len(asanaTasks)
       THEN /\ handlers' = [handlers EXCEPT ![1] =
                               Analysing("isIgnored", h.i + 1, h.keys, h.skipped)]
            /\ NoPass("analyzeStep")
       ELSE \E r \in {performTicketAnalysis(selectedColumns, AllOk, asanaTasks,
                                            youTrackIssues, h.skipped, {})} :
               /\ handlers' = [handlers EXCEPT ![1] = Idle]
               /\ analysis' = [r.analysis EXCEPT !.Ignored = h.keys]
               /\ err' = r.err
               /\ calls' = r.calls
               /\ fetched' = r.fetched
               /\ responses' = AllOk
               /\ requests' = <<>>
               /\ report' = NoReport
               /\ lastOp' = "analyze"
    /\ UNCHANGED <<asanaTasks, youTrackIssues, selectedColumns, ignoredTicketsTemp,
                   ignoredTicketsForever, ignoredFile, permSuppressed>>

\* POST /ignore arrives: the body is decoded, the assignment or the delete begun
raceIgnoreBegin ==
    /\ handlers[2] = Idle
    /\ \E req \in IgnoreRequests :
          handlers' = [handlers EXCEPT ![2] = [pc |-> "assign", req |-> req]]
    /\ NoPass("ignoreBegin")
    /\ UNCHANGED <<asanaTasks, youTrackIssues, selectedColumns, ignoredTicketsTemp,
                   ignoredTicketsForever, ignoredFile, permSuppressed>>

\* the assignment or the delete ends; a permanent request saves the file and answers
raceAssign ==
    /\ handlers[2].pc = "assign"
    /\ LET req == handlers[2].req IN
       IF req.Type = "forever"
       THEN /\ ignoredTicketsForever' = AssignedTo(ignoredTicketsForever, req)
            /\ ignoredFile' = getMapKeys(ignoredTicketsForever')
            /\ UNCHANGED ignoredTicketsTemp
       ELSE /\ ignoredTicketsTemp' = AssignedTo(ignoredTicketsTemp, req)
            /\ UNCHANGED <<ignoredTicketsForever, ignoredFile>>
    /\ handlers' = [handlers EXCEPT ![2] = Idle]
    /\ NoPass("ignore")
    /\ UNCHANGED <<asanaTasks, youTrackIssues, selectedColumns, permSuppressed>>

\* the Go runtime finds a map read during a map write and ends the process
raceFatal ==
    /\ Race
    /\ handlers' = [w \in DOMAIN handlers |-> Dead]
    /\ ignoredTicketsTemp' = {}
    /\ ignoredTicketsForever' = {}
    /\ NoPass("fatal")
    /\ UNCHANGED <<asanaTasks, youTrackIssues, selectedColumns, ignoredFile, permSuppressed>>

InitRace ==
    /\ asanaTasks \in {<<>>, BoardTasks}
    /\ youTrackIssues = <<>>
    /\ selectedColumns = allColumns
    /\ ignoredTicketsTemp \in SUBSET TicketIds
    /\ ignoredTicketsForever \in SUBSET TicketIds
    /\ ignoredFile = ignoredTicketsForever
    /\ analysis = NoAnalysis
    /\ err = ""
    /\ responses = NoResponses
    /\ calls = <<>>
    /\ fetched = NoFetch
    /\ requests = <<>>
    /\ report = NoReport
    /\ handlers = <<Idle, Idle>>
    /\ lastOp = "init"
    /\ permSuppressed = {}

NextRace ==
    \/ raceAnalyzeBegin \/ raceGetMapKeys \/ raceIsIgnored \/ raceProcessTask
    \/ raceIgnoreBegin \/ raceAssign \/ raceFatal

SpecRace == InitRace /\ [][NextRace]_vars

---------------------------------------------------------------------------
(* Vocabulary of the properties                                            *)

\* a pass has just returned a classification
Classified == lastOp = "analyze" /\ err = ""

Label(t) == IF Len(t.Memberships) = 0 THEN "" ELSE ToLower(t.Memberships[1])

InScopeTasks == {t \in Range(asanaTasks) : InColumns(t, selectedColumns)}

Suppressed(id) == id \in ignoredTicketsTemp \cup ignoredTicketsForever

\* the target snapshot of the pass: the project's issues
Snapshot == ProjectIssues(youTrackIssues)

KeyHolders(id) == {i \in 1..Len(Snapshot) : extractAsanaID(Snapshot[i]) = id}

HasTarget(id) == id # "" /\ KeyHolders(id) # {}

\* the target record a source id is compared with: the last one carrying the key
TargetOf(id) == Snapshot[CHOOSE i \in KeyHolders(id) : \A j \in KeyHolders(id) : j <= i]

GidsIn(tasks) == {tasks[i].GID : i \in 1..Len(tasks)}

GidsOfTickets(tickets) == {tickets[i].AsanaTask.GID : i \in 1..Len(tickets)}

InMatched(id) == id \in GidsOfTickets(analysis.Matched)

InMismatched(id) == id \in GidsOfTickets(analysis.Mismatched)

InMissing(id) == id \in GidsIn(analysis.MissingYouTrack)

InFindings(id) == id \in GidsIn(analysis.FindingsTickets)

InReadyForStage(id) == id \in GidsIn(analysis.ReadyForStage)

InBlocked(id) == id \in GidsOfTickets(analysis.BlockedTickets)

InIgnoredList(id) == id \in analysis.Ignored

HasAlert(id) == id \in GidsOfTickets(analysis.FindingsAlerts)

CountIn(tasks, id) == Cardinality({i \in 1..Len(tasks) : tasks[i].GID = id})

CountInTickets(tickets, id) ==
    Cardinality({i \in 1..Len(tickets) : tickets[i].AsanaTask.GID = id})

\* how many bucket entries of the result hold the source id
BucketCount(id) ==
    CountInTickets(analysis.Matched, id) + CountInTickets(analysis.Mismatched, id)
    + CountIn(analysis.MissingYouTrack, id) + CountIn(analysis.FindingsTickets, id)
    + CountIn(analysis.ReadyForStage, id) + CountInTickets(analysis.BlockedTickets, id)
    + (IF InIgnoredList(id) THEN 1 ELSE 0)

InSomeTaskBucket(id) ==
    \/ InMatched(id) \/ InMismatched(id) \/ InMissing(id)
    \/ InFindings(id) \/ InReadyForStage(id) \/ InBlocked(id)

----------------------------------------------------------------------

\* the ordered rule list of the classification, first match wins; dev and stage
\* are the names given to the third and the fourth rule's result
RuleList(label, dev, stage) ==
    CASE Contains(label, "backlog") -> "Backlog"
      [] Contains(label, "in progress") -> "In Progress"
      [] Contains(label, "dev") /\ ~Contains(label, "ready") -> dev
      [] Contains(label, "stage") /\ ~Contains(label, "ready") -> stage
      [] Contains(label, "blocked") -> "Blocked"
      [] Contains(label, "findings") -> "Findings"
      [] Contains(label, "ready for stage") -> "ReadyForStage"
      [] OTHER -> "Backlog"

\* the record is display-only for the classification: its label names one of the
\* display-only columns
DisplayOnlyLabel(t) ==
    Contains(Label(t), "findings") \/ Contains(Label(t), "ready for stage")

TicketsOf(tickets, id) == {tickets[i] : i \in {j \in 1..Len(tickets) : tickets[j].AsanaTask.GID = id}}

---------------------------------------------------------------------------
---------------------------------------------------------------------------
---------------------------------------------------------------------------
\* what the claim prescribes for a syncable, not blocked record whose source state
\* is `expected`: Missing without a target, Matched on equal states, else Mismatched
SyncOutcome(t, expected) ==
    LET id == t.GID IN
    IF ~HasTarget(id)
    THEN InMissing(id) /\ ~InMatched(id) /\ ~InMismatched(id)
    ELSE LET target == TargetOf(id)
             state == getYouTrackStatus(target)
         IN IF state = expected
            THEN /\ TicketsOf(analysis.Matched, id) = {MatchedTicket(t, target, expected)}
                 /\ ~InMismatched(id) /\ ~InMissing(id)
            ELSE /\ TicketsOf(analysis.Mismatched, id) =
                        {MismatchedTicket(t, target, expected, state)}
                 /\ ~InMatched(id) /\ ~InMissing(id)

(* C2, as claimed: an in-scope, non-suppressed record whose category (by   *)
(* the rule list) is syncable and not blocked is Matched if the target     *)
(* with its key has exactly the state the rule list gives for its label,   *)
(* Mismatched with both states captured if the target's state differs (for *)
(* label "Stage" the source state is "Stage"), MissingInTarget if no       *)
(* target carries its key.                                                 *)
C2_SyncBuckets ==
    Classified =>
        \A t \in InScopeTasks :
            (/\ ~Suppressed(t.GID)
             /\ RuleList(Label(t), "Dev", "Stage") \in {"Backlog", "In Progress", "Dev", "Stage"})
            => SyncOutcome(t, RuleList(Label(t), "Dev", "Stage"))

(* C2, amended: an in-scope, non-suppressed record that is not display-only *)
(* (its label contains neither "findings" nor "ready for stage") and not   *)
(* blocked is Matched if the target with its key (the last one in snapshot *)
(* order when several carry the key) has exactly the state the rule list   *)
(* gives for its label, Mismatched with both states captured if that       *)
(* target's state differs, MissingInTarget if no target carries its key;   *)
(* the source states are the target's state names: "DEV" for the dev rule, *)
(* "STAGE" for the stage rule (for label "Stage" the source state is       *)
(* "STAGE").                                                               *)
C2_SyncBucketsTargetNames ==
    Classified =>
        \A t \in InScopeTasks :
            (/\ ~Suppressed(t.GID)
             /\ ~DisplayOnlyLabel(t)
             /\ ~Contains(Label(t), "blocked"))
            => SyncOutcome(t, RuleList(Label(t), "DEV", "STAGE"))

\* the scenario of the claim: label "Stage", a target in another state, Mismatched
C2_Witness ==
    /\ Classified
    /\ \E t \in InScopeTasks :
          /\ Label(t) = "stage"
          /\ ~Suppressed(t.GID)
          /\ HasTarget(t.GID)
          /\ InMismatched(t.GID)
    /\ \E u \in Range(Snapshot) : Cardinality(KeyHolders(extractAsanaID(u))) > 1

---------------------------------------------------------------------------
(* C5: the OrphanedYouTrack bucket holds exactly the target records whose  *)
(* extracted key is non-empty and is not the id of a record of the         *)
(* filtered source set (suppressed records are part of that set).          *)
C5_OrphansExact ==
    Classified =>
        analysis.OrphanedYouTrack =
            SelectSeq2(Snapshot,
                {i \in Range(Snapshot) :
                    /\ extractAsanaID(i) # ""
                    /\ ~\E t \in InScopeTasks : t.GID = extractAsanaID(i)})

\* a target whose key names a source record outside the filter is orphaned,
\* next to a target with an empty key, which is not
C5_Witness ==
    /\ Classified
    /\ \E t \in Range(asanaTasks) \ InScopeTasks :
          /\ HasTarget(t.GID)
          /\ TargetOf(t.GID) \in Range(analysis.OrphanedYouTrack)
    /\ \E i \in Range(Snapshot) :
          extractAsanaID(i) = "" /\ i \notin Range(analysis.OrphanedYouTrack)

---------------------------------------------------------------------------
BlockedRecords ==
    {t \in InScopeTasks :
        ~Suppressed(t.GID) /\ ~DisplayOnlyLabel(t) /\ Contains(Label(t), "blocked")}

(* C6, as claimed: every in-scope, non-suppressed, syncable record whose   *)
(* label indicates "blocked" is in the Blocked bucket, whether or not a    *)
(* target with its key exists, and never in Matched, Mismatched or         *)
(* MissingInTarget.                                                        *)
C6_BlockedUnconditional ==
    Classified =>
        \A t \in BlockedRecords :
            /\ InBlocked(t.GID)
            /\ ~InMatched(t.GID) /\ ~InMismatched(t.GID) /\ ~InMissing(t.GID)

(* C6, amended: every in-scope, non-suppressed, syncable record whose      *)
(* label indicates "blocked" and whose key a target record carries is in   *)
(* the Blocked bucket whatever that target's state is, and never in        *)
(* Matched, Mismatched or MissingInTarget; a blocked record with no target *)
(* is in MissingInTarget and not in Blocked.                               *)
C6_BlockedWithTarget ==
    Classified =>
        \A t \in BlockedRecords :
            /\ ~InMatched(t.GID) /\ ~InMismatched(t.GID)
            /\ IF HasTarget(t.GID)
               THEN /\ TicketsOf(analysis.BlockedTickets, t.GID) =
                           {MatchedTicket(t, TargetOf(t.GID), RuleList(Label(t), "DEV", "STAGE"))}
                    /\ ~InMissing(t.GID)
               ELSE InMissing(t.GID) /\ ~InBlocked(t.GID)

\* a blocked record whose target is in another state, placed in Blocked
C6_Witness ==
    /\ Classified
    /\ \E t \in BlockedRecords :
          /\ HasTarget(t.GID)
          /\ getYouTrackStatus(TargetOf(t.GID)) = "Backlog"
          /\ InBlocked(t.GID)

---------------------------------------------------------------------------
ActiveSet == {"Backlog", "In Progress", "DEV", "STAGE", "Blocked"}

FindingsRecords ==
    {t \in InScopeTasks :
        ~Suppressed(t.GID) /\ RuleList(Label(t), "DEV", "STAGE") = "Findings"}

(* C7, as claimed: a non-suppressed in-scope record in the Findings        *)
(* category is placed in FindingsTickets, and an alert for it is emitted   *)
(* if and only if a target with its key exists and that target's state is  *)
(* in {Backlog, In Progress, DEV, STAGE, Blocked}.                         *)
C7_FindingsAlert ==
    Classified =>
        \A t \in FindingsRecords :
            /\ InFindings(t.GID)
            /\ HasAlert(t.GID) <=>
                  (HasTarget(t.GID) /\ getYouTrackStatus(TargetOf(t.GID)) \in ActiveSet)

(* C7, amended: a non-suppressed in-scope record in the Findings category  *)
(* is placed in FindingsTickets, and an alert referencing the record and   *)
(* its target (the last one in snapshot order when several carry the key)  *)
(* is emitted if and only if that target exists and its state equals,      *)
(* ignoring case, one of Backlog, In Progress, DEV, STAGE, Blocked.        *)
C7_FindingsAlertFold ==
    Classified =>
        \A t \in FindingsRecords :
            /\ InFindings(t.GID)
            /\ ~InMatched(t.GID) /\ ~InMismatched(t.GID) /\ ~InMissing(t.GID)
            /\ IF /\ HasTarget(t.GID)
                  /\ \E a \in ActiveSet : EqualFold(getYouTrackStatus(TargetOf(t.GID)), a)
               THEN TicketsOf(analysis.FindingsAlerts, t.GID) =
                       {FindingsAlert(t, TargetOf(t.GID), getYouTrackStatus(TargetOf(t.GID)))}
               ELSE ~HasAlert(t.GID)

\* a Findings record whose target is active, with its alert
C7_Witness ==
    /\ Classified
    /\ \E t \in FindingsRecords :
          /\ HasTarget(t.GID)
          /\ getYouTrackStatus(TargetOf(t.GID)) = "Backlog"
          /\ HasAlert(t.GID)
          /\ InFindings(t.GID)

---------------------------------------------------------------------------
(* C8: the category used to bucket a record is the result of the ordered   *)
(* rule list with first match wins: a record is bucketed as Findings or    *)
(* ReadyForStage only when no earlier rule matches its label.              *)
C8_RuleListCategory ==
    Classified =>
        \A t \in InScopeTasks :
            ~Suppressed(t.GID) =>
                /\ InFindings(t.GID) <=> RuleList(Label(t), "DEV", "STAGE") = "Findings"
                /\ InReadyForStage(t.GID) <=>
                      RuleList(Label(t), "DEV", "STAGE") = "ReadyForStage"

---------------------------------------------------------------------------
\* the id is in one of the buckets that drive a create or an update
InSyncBucket(id) == InMatched(id) \/ InMismatched(id) \/ InMissing(id) \/ InBlocked(id)

(* C4: once a permanent Suppress(id) has completed, and until a permanent  *)
(* Unsuppress(id), every classification keeps id out of every sync bucket  *)
(* and lists it in Ignored, also after the process has restarted and       *)
(* loaded ignored_tickets.json again.                                      *)
C4_PermanentSuppressPersists ==
    Classified => \A id \in permSuppressed : ~InSyncBucket(id) /\ InIgnoredList(id)

---------------------------------------------------------------------------
\* the strategies in the order the claim gives them
StrategyOrder ==
    <<"getYouTrackIssuesWithQuery", "getYouTrackIssuesSimpleCloud",
      "getYouTrackIssuesViaProjects">>

\* a strategy fails when none of its requests is answered with decodable JSON
StrategyFailed(fn, env) ==
    CASE fn = "getYouTrackIssuesWithQuery" ->
             \A e \in {"query1", "query2", "query3"} : env[e] # "ok"
      [] fn = "getYouTrackIssuesSimpleCloud" -> env["simple"] # "ok"
      [] OTHER -> env["projects"] # "ok"

\* the strategy invocations of the pass, after its call of getAsanaTasks
TargetCalls == SubSeq(calls, 2, Len(calls))

\* an HTTP analysis has just run and has called getYouTrackIssues
TargetFetched == lastOp = "analyze" /\ fetched # NoFetch

(* C9: getYouTrackIssues invokes its strategies in the order query search, *)
(* unfiltered list with client-side filter, project listing; a strategy is *)
(* invoked only if every earlier one failed and at most once; the result   *)
(* of the first strategy that succeeds is returned as it is and no later   *)
(* strategy is invoked; an error is returned only when all three failed.   *)
C9_StrategyOrder ==
    TargetFetched =>
        LET n == Len(TargetCalls) IN
        /\ n \in 1..Len(StrategyOrder)
        /\ \A i \in 1..n :
              /\ TargetCalls[i].fn = StrategyOrder[i]
              /\ (TargetCalls[i].err # "") = StrategyFailed(StrategyOrder[i], responses)
              /\ i < n => TargetCalls[i].err # ""
        /\ TargetCalls[n].err = "" =>
              fetched.err = "" /\ fetched.issues = ProjectIssues(youTrackIssues)
        /\ fetched.err # "" <=>
              n = Len(StrategyOrder) /\ \A i \in 1..n : TargetCalls[i].err # ""

C9_Witness ==
    /\ TargetFetched
    /\ Len(TargetCalls) = 2
    /\ TargetCalls[1].err # ""
    /\ TargetCalls[2].err = ""
    /\ responses["projects"] = "ok"
    /\ fetched.err = ""
    /\ fetched.issues # <<>>

---------------------------------------------------------------------------
\* the source fetch of the last pass failed
SourceFailed == calls # <<>> /\ calls[1].err # ""

\* the target fetch of the last pass failed: for getYouTrackIssues, every strategy
TargetFailed == fetched # NoFetch /\ fetched.err # ""

(* C10: a pass whose source fetch fails, or whose target fetch fails in    *)
(* every strategy, returns only an error that names the failed system: it  *)
(* produces no bucket, does not attempt the target fetch after a source    *)
(* failure and derives no create or update action. This holds for the HTTP *)
(* analysis and for the console loop runManualSync.                        *)
C10_NoResultFromFailedFetch ==
    lastOp \in {"analyze", "manualSync"} /\ (SourceFailed \/ TargetFailed) =>
        /\ analysis = NoAnalysis
        /\ SourceFailed => Contains(err, "Asana") /\ Len(calls) = 1 /\ fetched = NoFetch
        /\ TargetFailed => Contains(err, "YouTrack")
        /\ requests = <<>>

---------------------------------------------------------------------------
(* Vocabulary of the properties of the write operations                    *)

\* the task of the board with the gid
TaskOf(gid) == FindTask(asanaTasks, gid)[1]

\* the requests of a kind that the last operation sent about a task
SentFor(gid, kind) == SelectSeq(requests, LAMBDA q : q.gid = gid /\ q.kind = kind)

Writes == SelectSeq(requests, LAMBDA q : q.kind \in {"create", "update", "retry"})

\* the per-record entries of the report of the last create operation
CreateResults ==
    CASE lastOp = "createSingle" /\ report.status \in {"created", "skipped", "failed"} ->
             <<Result(report.task_id, report.status, report.error)>>
      [] lastOp \in {"createMissing", "batchCreate"} /\ "results" \in DOMAIN report ->
             report.results
      [] OTHER -> <<>>

DuplicateError == "ticket with title already exists in YouTrack"

\* the operation treated the record as a duplicate: isDuplicateTicket returned true
ReportedDuplicate(res) == res.status = "skipped" \/ res.error = DuplicateError

\* the probe was answered 200 with JSON, and a candidate has the title up to case
ProbeMatched(q) ==
    /\ q.answer.kind = "ok"
    /\ \E i \in 1..Len(q.answer.issues) :
          EqualFold(q.answer.issues[i].Summary, TaskOf(q.gid).Name)

\* no probe for the record succeeded: none could be built, or none was answered
ProbesFailed(gid) ==
    \A i \in 1..Len(SentFor(gid, "probe")) : SentFor(gid, "probe")[i].answer.kind # "ok"

(* C11: isDuplicateTicket returns true exactly when its request was        *)
(* answered 200 with decodable JSON and a candidate's summary equals the   *)
(* title case-insensitively; when the request cannot be built, is not      *)
(* answered, is answered with another status or with undecodable JSON it   *)
(* returns false, and the create of a record that is not display-only is   *)
(* then sent.                                                              *)
C11_ProbeFailOpen ==
    \A i \in 1..Len(CreateResults) :
       LET res == CreateResults[i]
           probes == SentFor(res.ticket_id, "probe")
       IN
       /\ ReportedDuplicate(res) <=> probes # <<>> /\ ProbeMatched(probes[Len(probes)])
       /\ ProbesFailed(res.ticket_id)
          /\ mapAsanaStateToYouTrack(TaskOf(res.ticket_id)) \notin NoSyncStates
          => Len(SentFor(res.ticket_id, "create")) = 1

\* C11 witness: a probe that was not answered, or could not be built, and the
\* create sent and accepted all the same
C11_Witness ==
    /\ lastOp = "createSingle"
    /\ report.status = "created"
    /\ ProbesFailed(report.task_id)
    /\ Len(SentFor(report.task_id, "create")) = 1

---------------------------------------------------------------------------
\* the classification of the board as it is, all columns selected
Shown ==
    performTicketAnalysis(allColumns, AllOk, asanaTasks, youTrackIssues,
                          ignoredTicketsTemp, ignoredTicketsForever).analysis

\* classification places the task in FindingsTickets or in ReadyForStage
InDisplayOnlyBucket(gid) ==
    gid \in asanaMapOf(Shown.FindingsTickets) \cup asanaMapOf(Shown.ReadyForStage)

(* C12: no create and no update request is sent for a task that            *)
(* classification places in a display-only bucket (FindingsTickets or      *)
(* ReadyForStage): createYouTrackIssue and updateYouTrackIssue return an   *)
(* error for it before the POST.                                           *)
C12_DisplayOnlyNeverWritten ==
    \A i \in 1..Len(Writes) : ~InDisplayOnlyBucket(Writes[i].gid)

---------------------------------------------------------------------------
(* C13: the id extractAsanaID reads from the description that a create or  *)
(* an update writes for a task is the gid of that task, whatever the notes *)
(* of the task are.                                                        *)
C13_KeyRoundTrip ==
    \A i \in 1..Len(Writes) :
       extractAsanaID([Description |-> Writes[i].payload.description]) = Writes[i].gid

---------------------------------------------------------------------------
\* the last operation was one that updates issues
Syncing == lastOp \in {"sync", "batchSync", "syncAll"}

\* the custom fields of the payload are the State field and nothing else
StateOnly(payload) ==
    /\ Len(payload.customFields) = 1
    /\ payload.customFields[1].Name = "State"

\* the positions of the first requests of the calls of updateYouTrackIssue
UpdateCalls == {i \in 1..Len(requests) : requests[i].kind = "update"}

\* the entries of the report that stand for a call of updateYouTrackIssue, in order
UpdateResults ==
    IF Syncing /\ "results" \in DOMAIN report
    THEN SelectSeq(report.results,
                   LAMBDA res : res.status = "synced"
                                \/ (res.status = "failed"
                                    /\ res.error \notin {"Ticket not found in mismatched list",
                                                         "Invalid action"}))
    ELSE <<>>

\* the number of calls that began at or before position i
CallNumber(i) == Cardinality({j \in UpdateCalls : j <= i})

\* the last request of the call that began at position i
LastOfCall(i) ==
    IF i < Len(requests) /\ requests[i + 1].kind = "retry" THEN requests[i + 1]
    ELSE requests[i]

(* C14: a call of updateYouTrackIssue sends one request, or two: the       *)
(* second one follows exactly a first one rejected with the Subsystem      *)
(* signature, goes to the same issue, carries the State field only, is     *)
(* never followed by a third, and its outcome is the outcome of the call;  *)
(* a first request rejected otherwise, or not answered, ends the call with *)
(* an error.                                                               *)
C14_RetryOnce ==
    Syncing =>
       /\ \A i \in 1..Len(requests) :
             /\ requests[i].kind \in {"update", "retry"}
             /\ requests[i].kind = "retry" =>
                   /\ i > 1
                   /\ requests[i - 1].kind = "update"
                   /\ requests[i - 1].answer = "subsystem"
                   /\ requests[i - 1].issueID = requests[i].issueID
                   /\ requests[i - 1].gid = requests[i].gid
                   /\ StateOnly(requests[i].payload)
             /\ requests[i].kind = "update" /\ requests[i].answer = "subsystem" =>
                   i < Len(requests) /\ requests[i + 1].kind = "retry"
       /\ Len(UpdateResults) = Cardinality(UpdateCalls)
       /\ \A i \in UpdateCalls :
             UpdateResults[CallNumber(i)].status = "synced" <=> LastOfCall(i).answer = "ok"

\* C14 witness: a first request with a Subsystem field rejected with the
\* signature, the second one rejected too, and the ticket reported as failed
C14_Witness ==
    /\ lastOp = "sync"
    /\ Len(requests) = 2
    /\ requests[1].answer = "subsystem"
    /\ ~StateOnly(requests[1].payload)
    /\ requests[2].kind = "retry"
    /\ requests[2].answer = "status"
    /\ report.results[1].status = "failed"

---------------------------------------------------------------------------
\* the last operation was a bulk create that reached its loop
BulkCreated == lastOp \in {"createMissing", "batchCreate"} /\ "results" \in DOMAIN report

CountStatus(results, status) ==
    Cardinality({i \in 1..Len(results) : results[i].status = status})

(* C15: a bulk create reports one entry for every task of MissingYouTrack, *)
(* in the order of MissingYouTrack, each with status created, skipped or   *)
(* failed, whatever happened to the tasks before it; the counts of the     *)
(* three statuses add up to the total; a task is created exactly when its  *)
(* one POST was accepted, and no task gets more than one POST.             *)
C15_BulkCreateComplete ==
    BulkCreated =>
       LET missing == analysis.MissingYouTrack
           results == report.results
       IN
       /\ report.total = Len(missing)
       /\ Len(results) = Len(missing)
       /\ \A i \in 1..Len(missing) :
             /\ results[i].ticket_id = missing[i].GID
             /\ results[i].status \in {"created", "skipped", "failed"}
             /\ Len(SentFor(missing[i].GID, "create")) <= 1
             /\ results[i].status = "created" <=>
                   /\ Len(SentFor(missing[i].GID, "create")) = 1
                   /\ SentFor(missing[i].GID, "create")[1].answer = "ok"
             /\ results[i].status = "skipped" =>
                   SentFor(missing[i].GID, "create") = <<>>
       /\ report.created = CountStatus(results, "created")
       /\ report.skipped = CountStatus(results, "skipped")
       /\ CountStatus(results, "created") + CountStatus(results, "skipped")
             + CountStatus(results, "failed") = report.total
       /\ lastOp = "batchCreate" => report.failed = CountStatus(results, "failed")

\* C15 witness: the create of the first task is rejected, the second task is
\* created all the same
C15_Witness ==
    /\ lastOp = "createMissing"
    /\ BulkCreated
    /\ Len(report.results) = 2
    /\ report.results[1].status = "failed"
    /\ report.results[2].status = "created"

---------------------------------------------------------------------------
\* the tickets a bulk sync is asked to sync, in order: the entries of the body
\* of POST /sync, or the mismatched tickets shown
Batch ==
    IF lastOp = "sync"
    THEN [i \in 1..Len(report.requests) |-> report.requests[i].ticket_id]
    ELSE [i \in 1..Len(analysis.Mismatched) |-> analysis.Mismatched[i].AsanaTask.GID]

\* the bulk sync ran its loop: POST /sync got its classification, the operator
\* confirmed the batch
BulkSynced == Syncing /\ "results" \in DOMAIN report

\* the entry makes the loop send an update: POST /sync looks the id up in the
\* mismatched list, Sync All needs its POST /sync answered
Updatable(i) ==
    CASE lastOp = "sync" ->
             /\ report.requests[i].action = "sync"
             /\ report.requests[i].ticket_id \in GidsOfMismatched(analysis)
      [] lastOp = "syncAll" -> report.results[i].status # "error"
      [] OTHER -> TRUE

---------------------------------------------------------------------------
\* no POST /ignore is in flight: every call has completed
AllCompleted == \A w \in DOMAIN handlers : handlers[w] = Idle

(* C17: once every POST /ignore has completed, the permanent set in memory *)
(* and ignored_tickets.json hold every id whose permanent Suppress         *)
(* completed and was not undone, whatever the interleaving of the          *)
(* requests was; the file holds what the set holds.                        *)
C17_NoLostUpdate ==
    AllCompleted =>
       /\ permSuppressed \subseteq ignoredTicketsForever
       /\ permSuppressed \subseteq ignoredFile
       /\ ignoredFile = ignoredTicketsForever

---------------------------------------------------------------------------
\* a step that completes a permanent request: the file is written, the handler answers
CompletesPermanent ==
    \E w \in DOMAIN handlers : handlers[w] # Idle /\ handlers[w].pc = "write"
                               /\ handlers'[w] = Idle /\ lastOp' = "ignore"

(* C18: the step that completes a permanent Suppress or Unsuppress, with   *)
(* no other request still in flight, leaves ignored_tickets.json equal to  *)
(* the permanent set in memory; a step that changes the temporary set      *)
(* leaves the file as it was; after a restart the temporary set is empty.  *)
C18_FileFollowsMemory ==
    [][/\ CompletesPermanent /\ AllCompleted' => ignoredFile' = ignoredTicketsForever'
       /\ ignoredTicketsTemp' # ignoredTicketsTemp => ignoredFile' = ignoredFile
       /\ lastOp' = "restart" => ignoredTicketsTemp' = {}]_vars

---------------------------------------------------------------------------
\* the ids of every bucket of a classification; Ignored is a list in no fixed order
Membership(an) ==
    [Matched |-> GidsOfTickets(an.Matched),
     Mismatched |-> GidsOfTickets(an.Mismatched),
     MissingYouTrack |-> GidsIn(an.MissingYouTrack),
     FindingsTickets |-> GidsIn(an.FindingsTickets),
     FindingsAlerts |-> GidsOfTickets(an.FindingsAlerts),
     ReadyForStage |-> GidsIn(an.ReadyForStage),
     BlockedTickets |-> GidsOfTickets(an.BlockedTickets),
     OrphanedYouTrack |-> {an.OrphanedYouTrack[i].ID : i \in 1..Len(an.OrphanedYouTrack)},
     Ignored |-> an.Ignored]

\* a second run on what the first run was given and left behind
SecondRun ==
    performTicketAnalysis(selectedColumns, responses, asanaTasks, youTrackIssues,
                          ignoredTicketsTemp, ignoredTicketsForever)

---------------------------------------------------------------------------
\* some tag of the list maps to the subsystem, up to case
SomeTagMaps(asanaTags, youtrackSubsystem) ==
    \E i \in 1..Len(asanaTags) :
       ToLower(mapTagToSubsystem(asanaTags[i])) = ToLower(youtrackSubsystem)

(* C20: checkTagMismatch is false when the tag list and the subsystem are  *)
(* both empty, true when exactly one of them is empty, and otherwise true  *)
(* unless mapTagToSubsystem of some tag equals the subsystem up to case;   *)
(* ([], "") gives false, (["Mobile"], "") true, (["Mobile"], "mobile")     *)
(* false.                                                                  *)
C20_TagMismatch ==
    /\ report.status = "tagCheck" =>
          LET tags == report.asanaTags
              subsystem == report.youtrackSubsystem
          IN report.TagMismatch =
                IF tags = <<>> /\ subsystem = "" THEN FALSE
                ELSE IF tags = <<>> \/ subsystem = "" THEN TRUE
                ELSE ~SomeTagMaps(tags, subsystem)
    /\ checkTagMismatch(<<>>, "") = FALSE
    /\ checkTagMismatch(<<"Mobile">>, "") = TRUE
    /\ checkTagMismatch(<<"Mobile">>, "mobile") = FALSE

\* C20 witness: the tag Mobile maps to mobile, the issue has subsystem Mobile
C20_Witness ==
    /\ report.status = "tagCheck"
    /\ report.asanaTags = <<"Mobile">>
    /\ report.youtrackSubsystem = "Mobile"
    /\ report.TagMismatch = FALSE

---------------------------------------------------------------------------
\* every ticket of the classification that pairs a task with a target record
PairedTickets ==
    Range(analysis.Matched) \cup Range(analysis.Mismatched)
       \cup Range(analysis.BlockedTickets) \cup Range(analysis.FindingsAlerts)

\* the first and the last record of the snapshot that carry the key
FirstHolder(id) == Snapshot[CHOOSE i \in KeyHolders(id) : \A j \in KeyHolders(id) : i <= j]

LastHolder(id) == Snapshot[CHOOSE i \in KeyHolders(id) : \A j \in KeyHolders(id) : j <= i]

\* several target records carry the key
Shadowing(id) == Cardinality(KeyHolders(id)) > 1

(* C21 as stated: when several target records carry the same non-empty    *)
(* key, a source record with that id is compared against the first such   *)
(* record in snapshot order.                                               *)
C21_FirstSeenWins ==
    Classified =>
       \A t \in PairedTickets :
          Shadowing(t.AsanaTask.GID) => t.YouTrackIssue = FirstHolder(t.AsanaTask.GID)

(* C21 amended: when several target records carry the same non-empty key, *)
(* the key index maps the key to the last such record in snapshot order   *)
(* and the earlier ones are shadowed: a source record with that id is     *)
(* compared against the last-seen target record.                          *)
C21_LastSeenWins ==
    Classified =>
       \A t \in PairedTickets :
          Shadowing(t.AsanaTask.GID) => t.YouTrackIssue = LastHolder(t.AsanaTask.GID)

\* C21 witness: two records with one key and different states, the task compared with the last
C21_Witness ==
    /\ Classified
    /\ \E t \in PairedTickets :
          /\ Shadowing(t.AsanaTask.GID)
          /\ FirstHolder(t.AsanaTask.GID) # LastHolder(t.AsanaTask.GID)
          /\ getYouTrackStatus(FirstHolder(t.AsanaTask.GID))
                # getYouTrackStatus(LastHolder(t.AsanaTask.GID))
          /\ t.YouTrackIssue = LastHolder(t.AsanaTask.GID)

---------------------------------------------------------------------------
\* the requests a strategy sends
RequestsOf(fn) ==
    CASE fn = "getYouTrackIssuesWithQuery" -> {"query1", "query2", "query3"}
      [] fn = "getYouTrackIssuesSimpleCloud" -> {"simple"}
      [] OTHER -> {"projects"}

\* some request of the strategy is answered with a decodable payload and a 2xx status
Received2xx(fn) == \E e \in RequestsOf(fn) : responses[e] \in {"ok", "status2xx"}

\* some request of the strategy is answered with a decodable payload and status 200
Received200(fn) == \E e \in RequestsOf(fn) : responses[e] = "ok"

\* what the claim says of a pass, for a given meaning of "the strategy received its answer"
StrategyOutcome(received(_)) ==
    LET n == Len(TargetCalls) IN
    /\ \A i \in 1..n : (TargetCalls[i].err = "") <=> received(TargetCalls[i].fn)
    /\ \A i \in 1..n : TargetCalls[i].err = "" =>
          /\ i = n
          /\ fetched.err = ""
          /\ fetched.issues = ProjectIssues(youTrackIssues)

(* C22 as stated: a strategy that receives a 2xx response with a decodable *)
(* payload has succeeded, also when the payload or the project filter      *)
(* leaves zero records; the snapshot is then returned without error and no *)
(* later strategy is invoked; a strategy fails only on a network error, a  *)
(* non-2xx status or a decode error.                                       *)
C22_Success2xx == TargetFetched => StrategyOutcome(Received2xx)

(* C22 amended: a strategy that receives a response with status 200 and a  *)
(* decodable payload has succeeded, also when the payload or the project   *)
(* filter leaves zero records; the snapshot is then returned without error *)
(* and no later strategy is invoked; a strategy fails only on a network    *)
(* error, a status other than 200 or a decode error.                       *)
C22_Success200 == TargetFetched => StrategyOutcome(Received200)

\* C22 witness: the unfiltered list is answered, the project filter leaves no record,
\* and the project listing is not asked
C22_Witness ==
    /\ TargetFetched
    /\ youTrackIssues # <<>>
    /\ Len(TargetCalls) = 2
    /\ TargetCalls[2].err = ""
    /\ fetched.err = ""
    /\ fetched.issues = <<>>

---------------------------------------------------------------------------
\* the rules of the claim in their order: the k-th rule matches the label
RuleMatches(k, label) ==
    CASE k = 1 -> Contains(label, "backlog")
      [] k = 2 -> Contains(label, "in progress")
      [] k = 3 -> Contains(label, "dev") /\ ~Contains(label, "ready")
      [] k = 4 -> Contains(label, "stage") /\ ~Contains(label, "ready")
      [] k = 5 -> Contains(label, "blocked")
      [] k = 6 -> Contains(label, "findings")
      [] k = 7 -> Contains(label, "ready for stage")

\* the state each rule gives
RuleStates ==
    <<"Backlog", "In Progress", "DEV", "STAGE", "Blocked", "FINDINGS_NO_SYNC",
      "READY_FOR_STAGE_NO_SYNC">>

\* the rules that match the label
MatchingRules(label) == {k \in 1..Len(RuleStates) : RuleMatches(k, label)}

\* the state of the first rule that matches, "Backlog" when none does
FirstRuleState(label) ==
    IF MatchingRules(label) = {} THEN "Backlog"
    ELSE RuleStates[CHOOSE k \in MatchingRules(label) : \A j \in MatchingRules(label) : k <= j]

(* C23: mapAsanaStateToYouTrack returns a state for every task, also for   *)
(* an empty label, for a task with no membership and for a label that      *)
(* matches no rule; the state is that of the first matching rule in the    *)
(* order backlog, in progress, dev and not ready, stage and not ready,     *)
(* blocked, findings, ready for stage, and "Backlog" when none matches.    *)
C23_MapLabelTotal ==
    report.status = "mapState" =>
       /\ report.state \in Range(RuleStates)
       /\ report.state = FirstRuleState(Label(report.task))

\* C23 witness: a label that two rules match, the earlier rule gives the state
C23_Witness ==
    /\ report.status = "mapState"
    /\ Cardinality(MatchingRules(Label(report.task))) = 2
    /\ report.state = "DEV"

---------------------------------------------------------------------------
\* the dictionary keys that equal the tag up to case
FoldedKeys(tag) == {k \in DOMAIN defaultTagMapping : ToLower(k) = ToLower(tag)}

(* C24: mapTagToSubsystem returns the dictionary value of a key equal to   *)
(* the tag, else the dictionary value of a key that equals the tag up to   *)
(* case ("api" maps like "API"), and the tag in lower case only when no    *)
(* key matches in either way.                                              *)
C24_MapTagFolded ==
    report.status = "mapTag" =>
       LET tag == report.asanaTag IN
       IF tag \in DOMAIN defaultTagMapping THEN report.subsystem = defaultTagMapping[tag]
       ELSE IF FoldedKeys(tag) # {}
            THEN \E k \in FoldedKeys(tag) : report.subsystem = defaultTagMapping[k]
       ELSE report.subsystem = ToLower(tag)

---------------------------------------------------------------------------
(* C25: in no interleaving of a running classification with a Suppress or  *)
(* Unsuppress of another request does the classification read a            *)
(* suppression set (isIgnored, getMapKeys) while that set is being         *)
(* written.                                                                *)
C25_NoReadDuringWrite == ~Race

---------------------------------------------------------------------------
\* the statuses that report a suppression made by an entry of POST /sync
IgnoredStatuses == {"ignored_temporarily", "ignored_permanently"}

\* the step is a sync operation that sends an update for the id
SendsUpdate(id) ==
    /\ lastOp' \in {"sync", "batchSync", "syncAll"}
    /\ \E i \in 1..Len(requests') :
          requests'[i].kind \in {"update", "retry"} /\ requests'[i].gid = id

\* the step is a POST /sync whose batch suppresses the id in an entry before a
\* "sync" entry for it
SuppressedInBatch(id) ==
    /\ lastOp' = "sync"
    /\ "results" \in DOMAIN report'
    /\ \E i, j \in 1..Len(report'.results) :
          /\ j < i
          /\ report'.requests[j].ticket_id = id
          /\ report'.results[j].status \in IgnoredStatuses
          /\ report'.requests[i].ticket_id = id
          /\ report'.requests[i].action = "sync"

(* C26: no update is sent to YouTrack for an id that is in a suppression   *)
(* set, temporary or permanent, when the update would be sent: neither for *)
(* an id suppressed before the operation, nor for an id that an earlier    *)
(* entry of the same POST /sync batch has suppressed.                      *)
C26_NoUpdateWhileSuppressed ==
    [][\A id \in asanaMapOf(asanaTasks) :
          SendsUpdate(id) =>
             /\ id \notin ignoredTicketsTemp \cup ignoredTicketsForever
             /\ ~SuppressedInBatch(id)]_vars

\* C26, the part about ids suppressed before the operation
C26_NoUpdateForSuppressedBefore ==
    [][\A id \in asanaMapOf(asanaTasks) :
          SendsUpdate(id) => id \notin ignoredTicketsTemp \cup ignoredTicketsForever]_vars

---------------------------------------------------------------------------
\* the create requests the last operation sent
Creates == SelectSeq(requests, LAMBDA q : q.kind = "create")

\* no create request of the last operation is for a suppressed record; a create
\* operation leaves the suppression sets as they were
NoSuppressedCreate ==
    \A i \in 1..Len(Creates) : ~Suppressed(Creates[i].gid)

(* C27: no create request is sent to YouTrack for a task whose id is in a  *)
(* suppression set, neither by the bulk create nor by the single-ticket    *)
(* create.                                                                 *)
C27_NoCreateWhileSuppressed ==
    lastOp \in {"createMissing", "batchCreate", "createSingle"} => NoSuppressedCreate

\* C27, the part about the bulk create
C27_BulkCreateSkipsSuppressed ==
    lastOp \in {"createMissing", "batchCreate"} => NoSuppressedCreate

---------------------------------------------------------------------------
\* the entries of the batch of a POST /sync whose ticket the Mismatched bucket of
\* its analysis does not hold
Unlisted ==
    {i \in 1..Len(report.requests) :
        report.requests[i].ticket_id \notin GidsOfMismatched(analysis)}

\* a POST /sync has run its loop
SyncAnswered == lastOp = "sync" /\ report.status = "completed"

(* C30: in POST /sync an entry whose ticket_id is not in the Mismatched    *)
(* bucket of the analysis taken at the start of the request is reported as *)
(* failed and changes nothing, whatever its action: no update is sent for  *)
(* it, and its id is added to neither suppression set nor to the persisted *)
(* list; a batch of such entries leaves the sets, the list and YouTrack    *)
(* unchanged.                                                              *)
C30_UnlistedEntryNoEffect ==
    [][SyncAnswered' =>
          /\ \A i \in Unlisted' :
                LET id == report'.requests[i].ticket_id IN
                /\ report'.results[i].status = "failed"
                /\ report'.results[i].ticket_id = id
                /\ \A k \in 1..Len(requests') :
                      requests'[k].gid = id => requests'[k].kind \notin {"update", "retry"}
                /\ id \in ignoredTicketsTemp' <=> id \in ignoredTicketsTemp
                /\ id \in ignoredTicketsForever' <=> id \in ignoredTicketsForever
                /\ id \in ignoredFile' <=> id \in ignoredFile
          /\ Unlisted' = DOMAIN report'.requests =>
                /\ requests' = <<>>
                /\ UNCHANGED <<ignoredTicketsTemp, ignoredTicketsForever, ignoredFile,
                               youTrackIssues>>]_vars

\* C30 witness: a batch with a permanent ignore for a ticket that is not mismatched;
\* the entry failed and the sets are empty
C30_Witness ==
    /\ SyncAnswered
    /\ \E i \in Unlisted :
          /\ report.requests[i].action = "ignore_forever"
          /\ report.requests[i].ticket_id \in asanaMapOf(asanaTasks)
          /\ report.results[i].status = "failed"
    /\ ignoredTicketsForever = {}
    /\ ignoredFile = {}
    /\ requests = <<>>

---------------------------------------------------------------------------
\* the next classification: the source snapshot and the suppression sets as they are,
\* the target snapshot as the operation left it
NextRun ==
    performTicketAnalysis(syncableColumns, AllOk, asanaTasks, youTrackIssues,
                          ignoredTicketsTemp, ignoredTicketsForever).analysis

\* the ids for which the last operation sent a request of one of the kinds and
\* YouTrack accepted it
Accepted(kinds) ==
    {requests[i].gid : i \in {j \in 1..Len(requests) :
                                 requests[j].kind \in kinds /\ requests[j].answer = "ok"}}

\* the notes of the task hold the text of the marker
NotesWithMarker(id) == Contains(TaskOf(id).Notes, AsanaMarker)

(* C28: when the update of a mismatched ticket has succeeded and YouTrack  *)
(* stores what it was sent, the next classification of the unchanged board *)
(* places the ticket, unless it has been suppressed, in Matched.           *)
C28_SyncedThenMatched ==
    Syncing =>
       \A id \in Accepted({"update", "retry"}) :
          ~Suppressed(id) => id \in GidsOfTickets(NextRun.Matched)

\* C28 for the tasks whose notes do not hold the text of the marker
C28_SyncedThenMatchedPlainNotes ==
    Syncing =>
       \A id \in Accepted({"update", "retry"}) :
          ~Suppressed(id) /\ ~NotesWithMarker(id) => id \in GidsOfTickets(NextRun.Matched)

(* C29: when the create for a task of MissingYouTrack has succeeded and    *)
(* YouTrack holds the created issue, the next classification of the        *)
(* unchanged board does not place the task in MissingYouTrack.             *)
C29_CreatedThenNotMissing ==
    lastOp \in {"createMissing", "batchCreate"} =>
       \A id \in Accepted({"create"}) : id \notin GidsIn(NextRun.MissingYouTrack)

\* C29 for the tasks whose notes do not hold the text of the marker
C29_CreatedThenNotMissingPlainNotes ==
    lastOp \in {"createMissing", "batchCreate"} =>
       \A id \in Accepted({"create"}) :
          ~NotesWithMarker(id) => id \notin GidsIn(NextRun.MissingYouTrack)

\* C29 for the console loop of the first version: the task of an accepted create is
\* found in the key index of the next pass
C29_CreatedThenFoundV1 ==
    lastOp = "manualSync" =>
       \A i \in 1..Len(requests) :
          requests[i].kind = "create" /\ requests[i].outcome = "ok"
             => requests[i].task.GID
                   \in DOMAIN youTrackMapV1(ProjectIssues(youTrackIssues), EmptyMap)

====
